---------------------------- MODULE Spec2Model ----------------------------
(***************************************************************************)
(* Model of the conversational car recommender: the bounded conversation   *)
(* memory (src/memory_manager.py) and the criteria extraction, filtering   *)
(* and ranking engine (src/car_recommender.py, tables of src/config.py).   *)
(*                                                                         *)
(* Text is modelled as text: a Python str is a TLA+ string, read as the    *)
(* sequence of its characters (Len, SubSeq and \o apply to it), so that    *)
(* `kw in text`, str.lower() and re.findall are computed on characters.    *)
(*                                                                         *)
(* Python values: None of a string field is the string "None"; None of a   *)
(* tuple or number field is the empty tuple <<>> and a number n of an      *)
(* optional number field is <<n>>; a dict with optional keys is a function *)
(* whose DOMAIN holds the keys present; an insertion-ordered dict is the   *)
(* sequence of its [key, value] items.                                     *)
(***************************************************************************)
EXTENDS Integers, Sequences, FiniteSets, TLC

VARIABLES
    \* MemoryManager (src/memory_manager.py:29-42)
    max_messages,         \* self.max_messages, the maxlen of the messages deque
    max_filters_history,  \* self.max_filters_history
    messages,             \* self.messages: deque of [role, content], oldest first
    filters_history,      \* self.filters_history: deque of filter snapshots
    user_preferences,     \* self.user_preferences: insertion-ordered dict
    mentioned_topics,     \* self.mentioned_topics: set of topic names
    \* CarRecommender (src/car_recommender.py:65)
    vehicles_db,          \* self.vehicles_db: list of vehicle dicts
    \* one call of extract_criteria_from_query: arguments and returned dict
    user_query,
    memory_context,
    criteria,
    \* one call of search_vehicles_by_criteria: locals and returned list
    filtered,             \* `filtered` when the scoring starts (line 495)
    ranked,               \* `ranked` (line 496)
    vehicles,             \* the returned list ranked[:5]
    has_enough_data,      \* the returned flag
    \* the app's session state and one run of its turn handler (src/app.py)
    recommender,          \* st.session_state.recommender: the shared object or None
    chat_history,         \* st.session_state.chat_history
    pc,                   \* the position of the turn handler
    response,             \* the text generate_smart_response returned
    llm_calls,            \* the calls of self.llm.complete made so far
    presented,            \* the vehicles shown under the response
    \* the calls of search_vehicles_by_criteria in progress in other sessions
    threads,
    \* the operation that produced the current state
    last_op

memVars == <<max_messages, max_filters_history, messages, filters_history,
             user_preferences, mentioned_topics>>
extractVars == <<user_query, memory_context, criteria>>
searchVars == <<filtered, ranked, vehicles, has_enough_data>>
appVars == <<recommender, chat_history, pc, response, llm_calls, presented>>
vars == <<memVars, vehicles_db, extractVars, searchVars, appVars, threads, last_op>>

----------------------------------------------------------------------------
(* Bounds of the model.                                                    *)

\* Largest deque capacity a MemoryManager is constructed with.
MaxCapacity == 3

\* The largest capacity of the filter history.
MaxFilterCapacity == 2

----------------------------------------------------------------------------
(* Python str and list primitives.                                         *)

None == "None"

\* `kw in text` of two str: kw occurs as a contiguous run of characters.
Contains(text, kw) ==
    \E i \in 1..(Len(text) - Len(kw) + 1) : SubSeq(text, i, i + Len(kw) - 1) = kw

\* The characters str.lower() changes, and what it changes them to.
UpperChars == "ABCDEFGHIJKLMNOPQRSTUVWXYZÁÉÍÓÚÜÑË"
LowerChars == "abcdefghijklmnopqrstuvwxyzáéíóúüñë"

LowerChar(c) ==
    IF \E i \in 1..Len(UpperChars) : SubSeq(UpperChars, i, i) = c
    THEN LET i == CHOOSE j \in 1..Len(UpperChars) : SubSeq(UpperChars, j, j) = c
         IN  SubSeq(LowerChars, i, i)
    ELSE c

\* str.lower(): every character lowered, the two halves of the text in turn.
RECURSIVE Lower(_)
Lower(text) ==
    IF text = "" THEN ""
    ELSE IF Len(text) = 1 THEN LowerChar(text)
    ELSE Lower(SubSeq(text, 1, Len(text) \div 2))
             \o Lower(SubSeq(text, Len(text) \div 2 + 1, Len(text)))

\* any(kw in text for kw in kws), kws a list of str
AnyIn(kws, text) == \E i \in 1..Len(kws) : Contains(text, kws[i])

\* x in xs, xs a list
InList(x, xs) == \E i \in 1..Len(xs) : xs[i] = x

\* A plain list in place of deque(maxlen=cap): nothing is ever evicted.
DequeAppendUnbounded(dq, x, cap) == Append(dq, x)

\* deque(maxlen=cap).append(x): the oldest item leaves when the deque is full.
DequeAppend(dq, x, cap) ==
    IF Len(dq) >= cap THEN SubSeq(Append(dq, x), Len(dq) - cap + 2, Len(dq) + 1)
    ELSE Append(dq, x)

\* d[key] = value on an insertion-ordered dict: a present key keeps its place.
DictSet(d, key, value) ==
    IF \E i \in 1..Len(d) : d[i].key = key
    THEN [i \in 1..Len(d) |-> IF d[i].key = key THEN [key |-> key, value |-> value]
                                ELSE d[i]]
    ELSE Append(d, [key |-> key, value |-> value])

----------------------------------------------------------------------------
(* MemoryManager (src/memory_manager.py).                                  *)

\* The keyword table local to _extract_topics, in the dict's order.
MemoryTopics == <<
    [topic |-> "eco",
     keywords |-> <<"eco", "sostenible", "verde", "electrico", "hibrido", "ambiente">>],
    [topic |-> "deportivo",
     keywords |-> <<"deportivo", "rapido", "performance", "potencia", "cv", "aceleracion">>],
    [topic |-> "familiar",
     keywords |-> <<"familia", "familiar", "espacio", "grande", "asientos", "maletero">>],
    [topic |-> "urbano",
     keywords |-> <<"ciudad", "urbano", "compacto", "pequeño", "estacionamiento">>],
    [topic |-> "viajes",
     keywords |-> <<"viajes", "carretera", "largo", "autonomia", "gasolina">>],
    [topic |-> "offroad",
     keywords |-> <<"offroad", "4x4", "terreno", "campo", "aventura", "montaña">>],
    [topic |-> "lujo",
     keywords |-> <<"lujo", "premium", "confort", "cuero", "tecnologia">>],
    [topic |-> "economico",
     keywords |-> <<"economico", "barato", "precio", "presupuesto", "ahorrar">>] >>

\* A topic set that holds the topics of the scanned text only.
ExtractTopicsOfText(topics, text) ==
    LET text_lower == Lower(text)
    IN  { MemoryTopics[i].topic : i \in
            { j \in 1..Len(MemoryTopics) : AnyIn(MemoryTopics[j].keywords, text_lower) } }

\* _extract_topics: the topic set after scanning text; topics are only added.
ExtractTopics(topics, text) ==
    LET text_lower == Lower(text)
    IN  topics \cup { MemoryTopics[i].topic : i \in
                        { j \in 1..Len(MemoryTopics) :
                            AnyIn(MemoryTopics[j].keywords, text_lower) } }

\* Preferences that no text changes.
ExtractPreferencesKept(prefs, text) == prefs

\* _extract_preferences: the preferences dict after scanning text.
ExtractPreferences(prefs, text) ==
    LET text_lower == Lower(text)
        afterMotor ==
            IF AnyIn(<<"electrico", "ev", "electrica">>, text_lower)
                THEN DictSet(prefs, "motor_preference", "Eléctrico")
            ELSE IF AnyIn(<<"hibrido", "phev">>, text_lower)
                THEN DictSet(prefs, "motor_preference", "Híbrido")
            ELSE IF AnyIn(<<"gasolina", "nafta">>, text_lower)
                THEN DictSet(prefs, "motor_preference", "Gasolina")
            ELSE IF AnyIn(<<"diesel">>, text_lower)
                THEN DictSet(prefs, "motor_preference", "Diésel")
            ELSE prefs
    IN  IF Contains(text_lower, "manual")
            THEN DictSet(afterMotor, "cambio_preference", "Manual")
        ELSE IF Contains(text_lower, "automatico") \/ Contains(text_lower, "automática")
            THEN DictSet(afterMotor, "cambio_preference", "Automático")
        ELSE afterMotor

\* The message dict add_message builds (timestamp and metadata are not read
\* by any modelled operation and are left out).
Message(role, content) == [role |-> role, content |-> content]

\* A log that takes no message.
AppendMessageLost(msgs, role, content, cap) == msgs

\* self.messages.append(message) of add_message
AppendMessage(msgs, role, content, cap) ==
    DequeAppend(msgs, Message(role, content), cap)

\* What add_message(role, content) does to the memory.
add_message(role, content) ==
    /\ messages' = AppendMessage(messages, role, content, max_messages)
    /\ IF role = "user"
       THEN /\ mentioned_topics' = ExtractTopics(mentioned_topics, content)
            /\ user_preferences' = ExtractPreferences(user_preferences, content)
       ELSE UNCHANGED <<mentioned_topics, user_preferences>>
    /\ UNCHANGED <<max_messages, max_filters_history, filters_history>>

\* A call of add_message(role, content) on the memory.
AddMessage(role, content) ==
    /\ add_message(role, content)
    /\ last_op' = [op |-> "add_message", role |-> role, content |-> content]
    /\ UNCHANGED <<vehicles_db, extractVars, searchVars, appVars, threads>>

\* A clear() that leaves the topics.
ClearKeepingTopics ==
    /\ messages' = <<>>
    /\ filters_history' = <<>>
    /\ user_preferences' = <<>>
    /\ last_op' = [op |-> "clear"]
    /\ UNCHANGED <<max_messages, max_filters_history, mentioned_topics>>
    /\ UNCHANGED <<vehicles_db, extractVars, searchVars, appVars, threads>>

\* clear()
Clear ==
    /\ messages' = <<>>
    /\ filters_history' = <<>>
    /\ user_preferences' = <<>>
    /\ mentioned_topics' = {}
    /\ last_op' = [op |-> "clear"]
    /\ UNCHANGED <<max_messages, max_filters_history>>
    /\ UNCHANGED <<vehicles_db, extractVars, searchVars, appVars, threads>>

\* A record that holds the dict object the caller passed.
FilterRecordShared(filters) == [filters |-> filters, shared |-> TRUE]

\* The record add_filter_update stores: filters.copy(), a new dict object with
\* the keys and values of the argument; `shared` tells whether the stored dict
\* is the very object the caller holds (the timestamp is not read by any
\* modelled operation and is left out).
FilterRecord(filters) == [filters |-> filters, shared |-> FALSE]

\* add_filter_update(filters)
AddFilterUpdate(filters) ==
    /\ filters_history' = DequeAppend(filters_history, FilterRecord(filters), max_filters_history)
    /\ last_op' = [op |-> "add_filter_update", filters |-> filters]
    /\ UNCHANGED <<max_messages, max_filters_history, messages, user_preferences,
                   mentioned_topics>>
    /\ UNCHANGED <<vehicles_db, extractVars, searchVars, appVars, threads>>

\* for x in xs: dq.append(x)
RECURSIVE DequeExtend(_, _, _)
DequeExtend(dq, xs, cap) ==
    IF xs = <<>> THEN dq
    ELSE DequeExtend(DequeAppend(dq, Head(xs), cap), Tail(xs), cap)

\* d.update(other), other an insertion-ordered dict
RECURSIVE DictUpdate(_, _)
DictUpdate(d, other) ==
    IF other = <<>> THEN d
    ELSE DictUpdate(DictSet(d, Head(other).key, Head(other).value), Tail(other))

\* import_memory(data), data a dict of the shape export_memory returns
ImportMemory(data) ==
    /\ messages' = DequeExtend(messages, data.messages, max_messages)
    /\ filters_history' = DequeExtend(filters_history, data.filters_history, max_filters_history)
    /\ user_preferences' = DictUpdate(user_preferences, data.user_preferences)
    /\ mentioned_topics' = mentioned_topics \cup data.mentioned_topics
    /\ last_op' = [op |-> "import_memory"]
    /\ UNCHANGED <<max_messages, max_filters_history>>
    /\ UNCHANGED <<vehicles_db, extractVars, searchVars, appVars, threads>>

\* f"{n:,}": the decimal digits of n >= 0 with a comma every three digits.
RECURSIVE GroupThousands(_)
GroupThousands(digits) ==
    IF Len(digits) <= 3 THEN digits
    ELSE GroupThousands(SubSeq(digits, 1, Len(digits) - 3)) \o ","
             \o SubSeq(digits, Len(digits) - 2, Len(digits))

\* last_filters.get(key, 0)
FilterGet(filters, key) == IF key \in DOMAIN filters THEN filters[key] ELSE 0

\* The lines of get_context for the last 10 turns. The role labels start
\* with a pictograph in the source, which no extraction rule can match and
\* which is left out of the label here.
RECURSIVE RenderTurns(_)
RenderTurns(msgs) ==
    IF msgs = <<>> THEN ""
    ELSE (IF Head(msgs).role = "user" THEN "Usuario" ELSE "Asistente")
             \o ": " \o Head(msgs).content \o "\n" \o RenderTurns(Tail(msgs))

\* ', '.join(names)
RECURSIVE JoinComma(_)
JoinComma(names) ==
    IF names = <<>> THEN ""
    ELSE IF Len(names) = 1 THEN names[1]
    ELSE names[1] \o ", " \o JoinComma(Tail(names))

\* sorted(set of str), for the topic names (all plain lower-case ASCII).
TopicOrder == <<"deportivo", "eco", "economico", "familiar", "lujo", "offroad",
                "urbano", "viajes">>
RECURSIVE SortedTopicsFrom(_, _)
SortedTopicsFrom(topics, i) ==
    IF i > Len(TopicOrder) THEN <<>>
    ELSE (IF TopicOrder[i] \in topics THEN <<TopicOrder[i]>> ELSE <<>>)
             \o SortedTopicsFrom(topics, i + 1)
\* A topic line that names no topic.
SortedTopicsNone(topics) == <<>>

SortedTopics(topics) == SortedTopicsFrom(topics, 1)

\* The "- key: value" lines of the learned preferences, in insertion order.
RECURSIVE RenderPreferences(_)
RenderPreferences(prefs) ==
    IF prefs = <<>> THEN ""
    ELSE "- " \o Head(prefs).key \o ": " \o Head(prefs).value \o "\n"
             \o RenderPreferences(Tail(prefs))

\* Every stored turn.
LastTurnsAll(msgs) == msgs

\* list(self.messages)[-10:]
RecentTurns == 10
LastTurns(msgs) ==
    IF Len(msgs) <= RecentTurns THEN msgs
    ELSE SubSeq(msgs, Len(msgs) - RecentTurns + 1, Len(msgs))

\* get_context() of a memory holding msgs, topics, prefs and filter history.
GetContext(msgs, topics, prefs, fhist) ==
    LET turns == IF msgs # <<>>
                 THEN "HISTORIAL DE CONVERSACIÓN:\n" \o RenderTurns(LastTurns(msgs)) \o "\n"
                 ELSE ""
        temas == IF topics # {}
                 THEN "TEMAS DE INTERÉS: " \o JoinComma(SortedTopics(topics)) \o "\n"
                 ELSE ""
        preferencias == IF prefs # <<>>
                        THEN "PREFERENCIAS DETECTADAS:\n" \o RenderPreferences(prefs) \o "\n"
                        ELSE ""
        filtros ==
            IF fhist # <<>>
            THEN LET last_filters == fhist[Len(fhist)].filters
                 IN  "ÚLTIMOS FILTROS APLICADOS:\n"
                     \o "- Precio: €" \o GroupThousands(ToString(FilterGet(last_filters, "precio_min")))
                     \o " - €" \o GroupThousands(ToString(FilterGet(last_filters, "precio_max"))) \o "\n"
                     \o "- Potencia: " \o ToString(FilterGet(last_filters, "potencia_min"))
                     \o " - " \o ToString(FilterGet(last_filters, "potencia_max")) \o " CV\n"
                     \o "- Autonomía mín: " \o ToString(FilterGet(last_filters, "autonomia_min"))
                     \o " km\n"
            ELSE ""
        context == turns \o temas \o preferencias \o filtros
    IN  IF context # "" THEN context ELSE "No hay contexto previo."

\* get_context(): the memory is only read.
GetContextCall ==
    /\ last_op' = [op |-> "get_context",
                   returned |-> GetContext(messages, mentioned_topics, user_preferences,
                                           filters_history)]
    /\ UNCHANGED <<memVars, vehicles_db, extractVars, searchVars, appVars, threads>>

\* The dict get_summary() returns.
Summary(msgs, topics, prefs, fhist) ==
    [total_messages |-> Len(msgs),
     user_messages |-> Cardinality({ i \in 1..Len(msgs) : msgs[i].role = "user" }),
     assistant_messages |-> Cardinality({ i \in 1..Len(msgs) : msgs[i].role = "assistant" }),
     topics |-> SortedTopics(topics),
     preferences |-> prefs,
     filter_changes |-> Len(fhist)]

\* get_summary()
GetSummary ==
    /\ last_op' = [op |-> "get_summary",
                   returned |-> Summary(messages, mentioned_topics, user_preferences,
                                        filters_history)]
    /\ UNCHANGED <<memVars, vehicles_db, extractVars, searchVars, appVars, threads>>

-----------------------------------------------------------------------------
(* Tables of src/config.py, in the dicts' order.                           *)

VEHICLE_TYPES == <<
    [name |-> "Compacto", aliases |-> <<"compacto", "hatchback", "segmento C">>],
    [name |-> "SUV Coupé", aliases |-> <<"suv coupé", "suv coupe", "suv">>],
    [name |-> "SUV", aliases |-> <<"suv", "todocamino", "todoterreno", "awd", "4*4">>],
    [name |-> "Cabrio",
     aliases |-> <<"cabrio", "convertible", "cabriolet", "roadster", "descapotable", "spyder">>],
    [name |-> "Familiar", aliases |-> <<"familiar", "touring", "wagon">>],
    [name |-> "Berlina", aliases |-> <<"berlina", "sedan", "sedán">>],
    [name |-> "Coupé", aliases |-> <<"coupe", "coupé", "fastback", "dos puertas">>],
    [name |-> "SUV Compacto", aliases |-> <<"suv compacto", "compacto suv">>],
    [name |-> "Monovolumen", aliases |-> <<"monovolumen", "minivan">>],
    [name |-> "Deportivo", aliases |-> <<"deportivo", "sport", "racing">>],
    [name |-> "SUV Deportivo", aliases |-> <<"deportivo suv", "suv deportivo">>],
    [name |-> "Furgoneta", aliases |-> <<"furgo", "van", "furgoneta">>],
    [name |-> "Crossover", aliases |-> <<"crossover", "cuv">>] >>

MOTOR_TYPES == <<
    [name |-> "Gasolina", aliases |-> <<"gasolina">>],
    [name |-> "Diésel", aliases |-> <<"diesel", "diésel", "gasoil">>],
    [name |-> "Híbrido", aliases |-> <<"hibrido", "híbrido", "hybrid">>],
    [name |-> "Híbrido Enchufable",
     aliases |-> <<"hibrido enchufable", "híbrido enchufable", "plug-in hybrid">>],
    [name |-> "Eléctrico",
     aliases |-> <<"electrico", "eléctrico", "cero emisiones", "100% electrico",
                   "100% eléctrico">>] >>

TOPICS == <<
    [name |-> "eco",
     keywords |-> <<"eco", "sostenible", "verde", "electrico", "eléctrico", "hibrido",
                    "híbrido", "ambiente", "emision", "emisión">>],
    [name |-> "deportivo",
     keywords |-> <<"deportivo", "sport", "rapido", "rápido", "performance", "potencia",
                    "cv", "aceleracion", "aceleración", "adrenalina">>],
    [name |-> "familiar",
     keywords |-> <<"familia", "familiar", "niños", "ninos", "espacio", "grande",
                    "asientos", "maletero", "sillas infantiles">>],
    [name |-> "urbano",
     keywords |-> <<"ciudad", "urbano", "compacto", "pequeño", "pequeno",
                    "estacionamiento", "maniobrabilidad", "atascos", "trayectos cortos">>],
    [name |-> "viajes",
     keywords |-> <<"viajes", "carretera", "largo recorrido", "autonomia", "autonomía",
                    "consumo", "paradas", "vacaciones">>],
    [name |-> "offroad",
     keywords |-> <<"offroad", "4x4", "awd", "todoterreno", "campo", "aventura",
                    "montaña", "montana", "nieve", "pistas">>],
    [name |-> "lujo",
     keywords |-> <<"lujo", "premium", "alta gama", "tope de gama", "acabados", "cuero",
                    "asientos", "masaje", "tecnologia", "tecnología", "infotainment",
                    "luces matriciales">>],
    [name |-> "economico",
     keywords |-> <<"economico", "económico", "barato", "precio bajo",
                    "presupuesto ajustado", "ahorrar", "gasto bajo">>] >>

----------------------------------------------------------------------------
(* CarRecommender.extract_criteria_from_query (src/car_recommender.py).    *)

\* brand_keywords, in the dict's order
BrandKeywords == <<
    [kw |-> "bmw", canonical |-> "bmw"],
    [kw |-> "audi", canonical |-> "audi"],
    [kw |-> "mercedes-benz", canonical |-> "mercedes"],
    [kw |-> "mercedes", canonical |-> "mercedes"],
    [kw |-> "volkswagen", canonical |-> "volkswagen"],
    [kw |-> "vw", canonical |-> "volkswagen"],
    [kw |-> "seat", canonical |-> "seat"],
    [kw |-> "cupra", canonical |-> "cupra"],
    [kw |-> "skoda", canonical |-> "skoda"],
    [kw |-> "peugeot", canonical |-> "peugeot"],
    [kw |-> "renault", canonical |-> "renault"],
    [kw |-> "citroen", canonical |-> "citroën"],
    [kw |-> "citroën", canonical |-> "citroën"] >>

\* The brands loop: each canonical brand whose keyword is in the text, once.
RECURSIVE BrandsFrom(_, _, _)
BrandsFrom(text, i, acc) ==
    IF i > Len(BrandKeywords) THEN acc
    ELSE BrandsFrom(text, i + 1,
            IF Contains(text, BrandKeywords[i].kw) /\ ~InList(BrandKeywords[i].canonical, acc)
            THEN Append(acc, BrandKeywords[i].canonical)
            ELSE acc)

\* alias.lower() of every alias of an alias table
LowerAliases(table) ==
    [i \in 1..Len(table) |->
        [j \in 1..Len(table[i].aliases) |-> Lower(table[i].aliases[j])]]
VehicleTypeAliases == LowerAliases(VEHICLE_TYPES)
MotorTypeAliases == LowerAliases(MOTOR_TYPES)

\* The loop over an alias table: every name with an alias in the text is
\* appended to acc unless it is in acc already.
RECURSIVE AliasMatches(_, _, _, _, _)
AliasMatches(table, aliases, text, i, acc) ==
    IF i > Len(table) THEN acc
    ELSE AliasMatches(table, aliases, text, i + 1,
            IF AnyIn(aliases[i], text) /\ ~InList(table[i].name, acc)
            THEN Append(acc, table[i].name)
            ELSE acc)

\* The vehicle types: those of the query, and those of the memory only when
\* the query gives none.
ExtractVehicleTypes(query_lower, memory_lower) ==
    LET fromQuery == AliasMatches(VEHICLE_TYPES, VehicleTypeAliases, query_lower, 1, <<>>)
    IN  IF fromQuery = <<>>
        THEN AliasMatches(VEHICLE_TYPES, VehicleTypeAliases, memory_lower, 1, <<>>)
        ELSE fromQuery

\* One loop over TOPICS: every topic with a keyword in the text joins acc.
RECURSIVE TopicMatches(_, _, _)
TopicMatches(text, i, acc) ==
    IF i > Len(TOPICS) THEN acc
    ELSE TopicMatches(text, i + 1,
            IF AnyIn(TOPICS[i].keywords, text) /\ ~InList(TOPICS[i].name, acc)
            THEN Append(acc, TOPICS[i].name)
            ELSE acc)

\* The topics read like the vehicle types: the memory only when the query
\* gives none.
ExtractTopicsFallback(query_lower, memory_lower) ==
    IF TopicMatches(query_lower, 1, <<>>) # <<>> THEN TopicMatches(query_lower, 1, <<>>)
    ELSE TopicMatches(memory_lower, 1, <<>>)

\* The topics: the loop over the query, then the loop over the memory.
ExtractTopicsOfQuery(query_lower, memory_lower) ==
    TopicMatches(memory_lower, 1, TopicMatches(query_lower, 1, <<>>))

\* The motors: those of the query, and those of the memory only when the
\* query gives none.
ExtractMotors(query_lower, memory_lower) ==
    LET fromQuery == AliasMatches(MOTOR_TYPES, MotorTypeAliases, query_lower, 1, <<>>)
    IN  IF fromQuery = <<>>
        THEN AliasMatches(MOTOR_TYPES, MotorTypeAliases, memory_lower, 1, <<>>)
        ELSE fromQuery

\* The gearbox
ExtractGearbox(query_lower, memory_lower) ==
    IF Contains(query_lower, "manual") THEN "Manual"
    ELSE IF \/ Contains(query_lower, "automatico")
            \/ Contains(query_lower, "automático")
            \/ Contains(query_lower, "auto")
        THEN "Automático"
    ELSE IF Contains(memory_lower, "manual") THEN "Manual"
    ELSE IF Contains(memory_lower, "automatico") \/ Contains(memory_lower, "automático")
        THEN "Automático"
    ELSE None

\* traction_map, in the dict's order
TractionMap == <<
    [kw |-> "delantera", tt |-> "FWD"],
    [kw |-> "tracción delantera", tt |-> "FWD"],
    [kw |-> "traccion delantera", tt |-> "FWD"],
    [kw |-> "trasera", tt |-> "RWD"],
    [kw |-> "propulsion", tt |-> "RWD"],
    [kw |-> "propulsión", tt |-> "RWD"],
    [kw |-> "tracción trasera", tt |-> "RWD"],
    [kw |-> "traccion trasera", tt |-> "RWD"],
    [kw |-> "4x4", tt |-> "AWD"],
    [kw |-> "awd", tt |-> "AWD"],
    [kw |-> "tracción total", tt |-> "AWD"],
    [kw |-> "traccion total", tt |-> "AWD"] >>

\* One loop over traction_map: the traction of the first keyword in the text.
TractionIn(text) ==
    IF \E i \in 1..Len(TractionMap) : Contains(text, TractionMap[i].kw)
    THEN LET first == CHOOSE i \in 1..Len(TractionMap) :
                        /\ Contains(text, TractionMap[i].kw)
                        /\ \A j \in 1..(i - 1) : ~Contains(text, TractionMap[j].kw)
         IN  TractionMap[first].tt
    ELSE None

\* The traction: the query's, and the memory's only when the query gives none.
ExtractTraction(query_lower, memory_lower) ==
    IF TractionIn(query_lower) # None THEN TractionIn(query_lower)
    ELSE TractionIn(memory_lower)

\* Regular expressions of the numeric fields. Every pattern is a captured
\* run of digits, optional white space and a literal word, in one of the two
\* orders: r"(\d+)\s*word" or r"word\s*(\d+)".

Digits == "0123456789"
IsDigit(c) == \E i \in 1..Len(Digits) : SubSeq(Digits, i, i) = c
IsSpace(c) == c \in {" ", "\n", "\t", "\r"}
CharAt(text, i) == SubSeq(text, i, i)

\* The literal word stands in the text at position i.
WordAt(text, i, word) ==
    i + Len(word) - 1 <= Len(text) /\ SubSeq(text, i, i + Len(word) - 1) = word

\* The last position of the run of digits that holds position i.
RECURSIVE DigitsEnd(_, _)
DigitsEnd(text, i) ==
    IF i < Len(text) /\ IsDigit(CharAt(text, i + 1)) THEN DigitsEnd(text, i + 1) ELSE i

\* The first position from i on that holds no white space.
RECURSIVE SkipSpaces(_, _)
SkipSpaces(text, i) ==
    IF i <= Len(text) /\ IsSpace(CharAt(text, i)) THEN SkipSpaces(text, i + 1) ELSE i

\* r"(\d+)\s*word" matches at position i. \d+ is greedy and the word starts
\* with no digit and no white space, so backtracking finds no other match.
NumWordAt(text, i, word) ==
    /\ i <= Len(text)
    /\ IsDigit(CharAt(text, i))
    /\ WordAt(text, SkipSpaces(text, DigitsEnd(text, i) + 1), word)

\* r"word\s*(\d+)" matches at position i.
WordNumAt(text, i, word) ==
    /\ WordAt(text, i, word)
    /\ LET d == SkipSpaces(text, i + Len(word))
       IN  d <= Len(text) /\ IsDigit(CharAt(text, d))

PatternAt(text, i, pattern) ==
    IF pattern.kind = "num_word" THEN NumWordAt(text, i, pattern.word)
    ELSE WordNumAt(text, i, pattern.word)

\* re.findall(pattern, text) is not empty.
Matches(text, pattern) == \E i \in 1..Len(text) : PatternAt(text, i, pattern)

\* int(s) of a run of digits
RECURSIVE ParseInt(_)
ParseInt(digits) ==
    IF digits = "" THEN 0
    ELSE 10 * ParseInt(SubSeq(digits, 1, Len(digits) - 1))
         + (CHOOSE d \in 0..9 : SubSeq(Digits, d + 1, d + 1) = CharAt(digits, Len(digits)))

\* int(re.findall(pattern, text)[0]): the capture of the leftmost match.
FirstCapture(text, pattern) ==
    LET i == CHOOSE k \in 1..Len(text) :
                /\ PatternAt(text, k, pattern)
                /\ \A j \in 1..(k - 1) : ~PatternAt(text, j, pattern)
        d == IF pattern.kind = "num_word" THEN i
             ELSE SkipSpaces(text, i + Len(pattern.word))
    IN  ParseInt(SubSeq(text, d, DigitsEnd(text, d)))

\* The loop `for pattern in patterns: ... break`: the number of the first
\* pattern of the list that matches the text, <<n>>, or <<>> when none does.
FirstNumber(text, patterns) ==
    IF \E p \in 1..Len(patterns) : Matches(text, patterns[p])
    THEN LET first == CHOOSE p \in 1..Len(patterns) :
                        /\ Matches(text, patterns[p])
                        /\ \A q \in 1..(p - 1) : ~Matches(text, patterns[q])
         IN  <<FirstCapture(text, patterns[first])>>
    ELSE <<>>

PricePatterns == <<
    [kind |-> "num_word", word |-> "k"],
    [kind |-> "word_num", word |-> "€"],
    [kind |-> "num_word", word |-> "€"],
    [kind |-> "word_num", word |-> "menos de"] >>

PowerPatterns == <<
    [kind |-> "num_word", word |-> "cv"],
    [kind |-> "num_word", word |-> "hp"],
    [kind |-> "num_word", word |-> "caballos"] >>

AutonomyPatterns == <<
    [kind |-> "num_word", word |-> "km"],
    [kind |-> "word_num", word |-> "autonomía"],
    [kind |-> "word_num", word |-> "autonomia"] >>

\* The numbers of `if price < 500: price *= 1000`
PriceThreshold == 500
PriceFactor == 1000

\* The price test with the boundary on the wrong side: 500 is multiplied too.
PriceOfInclusive(literal) ==
    IF literal <= PriceThreshold THEN literal * PriceFactor ELSE literal

\* `if price < 500: price *= 1000`
PriceOf(literal) == IF literal < PriceThreshold THEN literal * PriceFactor ELSE literal

\* The price range of one text: (0, price), or None.
PriceRangeIn(text) ==
    LET found == FirstNumber(text, PricePatterns)
    IN  IF found # <<>> THEN <<0, PriceOf(found[1])>> ELSE <<>>

\* The price: the query's, and the memory's when the query's is None.
ExtractPriceRange(query_lower, memory_lower) ==
    IF PriceRangeIn(query_lower) # <<>> THEN PriceRangeIn(query_lower)
    ELSE PriceRangeIn(memory_lower)

\* The power range of one text: (power, 1000), or None.
PowerMax == 1000
PowerRangeIn(text) ==
    LET found == FirstNumber(text, PowerPatterns)
    IN  IF found # <<>> THEN <<found[1], PowerMax>> ELSE <<>>

\* The power: the query's, and the memory's when the query's is None.
ExtractPowerRange(query_lower, memory_lower) ==
    IF PowerRangeIn(query_lower) # <<>> THEN PowerRangeIn(query_lower)
    ELSE PowerRangeIn(memory_lower)

\* `not x` of an optional number: None and 0 are both falsy.
Falsy(optional) == optional = <<>> \/ optional[1] = 0

\* The autonomy: the query's; the memory is read when `not autonomy_min`,
\* and a match there overwrites what the query gave.
ExtractAutonomyMin(query_lower, memory_lower) ==
    LET fromQuery == FirstNumber(query_lower, AutonomyPatterns)
        fromMemory == FirstNumber(memory_lower, AutonomyPatterns)
    IN  IF Falsy(fromQuery) /\ fromMemory # <<>> THEN fromMemory ELSE fromQuery

\* The rule without the short cut a vehicle type gives: two signals are
\* needed with a type as well.
HasEnoughDataTwoSignals(c) ==
    Cardinality({ f \in {"topics", "motors", "price_range", "power_range"} :
                    c[f] # <<>> }) >= 2

\* The rule with the motor left out of the count made without a type.
HasEnoughDataNoMotor(c) ==
    IF Len(c.vehicle_types) > 0
    THEN c.topics # <<>> \/ c.price_range # <<>> \/ c.motors # <<>> \/ c.power_range # <<>>
    ELSE Cardinality({ f \in {"topics", "price_range", "power_range"} : c[f] # <<>> }) >= 2

\* A gate that never finds the data sufficient.
HasEnoughDataNever(c) == FALSE

\* has_enough_data, from the collected fields.
HasEnoughData(c) ==
    LET has_type == Len(c.vehicle_types) > 0
        has_topic == Len(c.topics) > 0
        has_price == c.price_range # <<>>
        has_power == c.power_range # <<>>
        has_motor == Len(c.motors) > 0
        count(b) == IF b THEN 1 ELSE 0
    IN  IF has_type THEN has_topic \/ has_price \/ has_motor \/ has_power
        ELSE count(has_topic) + count(has_price) + count(has_power) + count(has_motor) >= 2

\* The criteria dict as extract_criteria_from_query first builds it.
EmptyCriteria ==
    [topics |-> <<>>, vehicle_types |-> <<>>, brands |-> <<>>, motors |-> <<>>,
     gearbox |-> None, traction |-> None, price_range |-> <<>>, power_range |-> <<>>,
     autonomy_min |-> <<>>, has_enough_data |-> FALSE]

\* extract_criteria_from_query(user_query, memory_context): the returned dict.
ExtractCriteriaFromQuery(query, context) ==
    LET query_lower == Lower(query)
        memory_lower == Lower(context)
        fields ==
            [topics |-> ExtractTopicsOfQuery(query_lower, memory_lower),
             vehicle_types |-> ExtractVehicleTypes(query_lower, memory_lower),
             brands |-> BrandsFrom(query_lower, 1, <<>>),
             motors |-> ExtractMotors(query_lower, memory_lower),
             gearbox |-> ExtractGearbox(query_lower, memory_lower),
             traction |-> ExtractTraction(query_lower, memory_lower),
             price_range |-> ExtractPriceRange(query_lower, memory_lower),
             power_range |-> ExtractPowerRange(query_lower, memory_lower),
             autonomy_min |-> ExtractAutonomyMin(query_lower, memory_lower),
             has_enough_data |-> FALSE]
    IN  [fields EXCEPT !.has_enough_data = HasEnoughData(fields)]

\* The call extract_criteria_from_query(user_query, memory_context); it reads
\* and writes no attribute of the recommender.
ExtractCriteria ==
    /\ criteria' = ExtractCriteriaFromQuery(user_query, memory_context)
    /\ last_op' = [op |-> "extract_criteria_from_query"]
    /\ UNCHANGED <<user_query, memory_context>>
    /\ UNCHANGED <<memVars, vehicles_db, searchVars, appVars, threads>>

----------------------------------------------------------------------------
(* No app session: the objects are used on their own.                      *)

NoSession ==
    /\ recommender = None
    /\ chat_history = <<>>
    /\ pc = "idle"
    /\ response = ""
    /\ llm_calls = <<>>
    /\ presented = <<>>
    /\ threads = <<>>

-----------------------------------------------------------------------------
(* The memory alone: a MemoryManager of some capacity and the calls made   *)
(* on it.                                                                  *)

Roles == {"user", "assistant"}

\* Message texts: user utterances and assistant answers.
Contents == {"Busco un SUV barato", "lo quiero ELECTRICO y manual", "hola"}

InitMemory ==
    /\ max_messages \in 1..MaxCapacity
    /\ max_filters_history \in 1..MaxCapacity
    /\ messages = <<>>
    /\ filters_history = <<>>
    /\ user_preferences = <<>>
    /\ mentioned_topics = {}
    /\ vehicles_db = <<>>
    /\ user_query = ""
    /\ memory_context = ""
    /\ criteria = EmptyCriteria
    /\ filtered = <<>>
    /\ ranked = <<>>
    /\ vehicles = <<>>
    /\ has_enough_data = FALSE
    /\ NoSession
    /\ last_op = [op |-> "init"]

NextMemory ==
    \/ \E role \in Roles, content \in Contents : AddMessage(role, content)
    \/ Clear

SpecMemory == InitMemory /\ [][NextMemory]_vars

----------------------------------------------------------------------------
(* Claims about the memory, checked under SpecMemory.                      *)

\* The add_message call that produced the next state appended this message.
AppendedMessage == Message(last_op'.role, last_op'.content)

\* C1: after any sequence of add_message calls on a MemoryManager of capacity
\* N the turn log holds at most N turns; an add_message on a full log evicts
\* exactly the oldest turn and keeps the other N-1 in order, followed by the
\* new one; on a log that is not full it only appends; and no add_message,
\* evicting or not, removes a topic from mentioned_topics (an assistant turn
\* leaves the topic set as it was).
C1_SlidingWindow ==
    /\ [](Len(messages) <= max_messages)
    /\ [][last_op'.op = "add_message" =>
            /\ IF Len(messages) = max_messages
               THEN messages' = Tail(messages) \o <<AppendedMessage>>
               ELSE messages' = messages \o <<AppendedMessage>>
            /\ mentioned_topics \subseteq mentioned_topics'
            /\ last_op'.role # "user" => mentioned_topics' = mentioned_topics
        ]_vars

\* C1 witness: an add_message on a full log has acted, and the topic of an
\* evicted turn ("barato" gave "economico") is still in the topic set.
C1_Witness ==
    /\ last_op.op = "add_message"
    /\ Len(messages) = max_messages
    /\ "economico" \in mentioned_topics
    /\ \A i \in 1..Len(messages) : messages[i].content # "Busco un SUV barato"

----------------------------------------------------------------------------
(* The extraction alone: the arguments are an utterance and the context a   *)
(* memory renders after earlier utterances; the call is applied to them.   *)

\* Longest conversation the memory contexts are rendered from.
MaxHistory == 1

\* The default capacities of a MemoryManager.
DefaultMaxMessages == 20
DefaultMaxFiltersHistory == 5

\* User utterances.
Utterances ==
    {"Busco un SUV barato", "berlina", "deportivo rapido", "quiero manual",
     "mejor automático", "gasolina 30k", "30000€", "menos de 499", "€500", "0 km",
     "bmw diesel 400 km", "150 cv tracción total", "audi trasera 200 caballos",
     "ciudad", "prefiero diesel", "hola"}

\* The conversations of at most MaxHistory user turns.
Histories == UNION { [1..n -> Utterances] : n \in 0..MaxHistory }

\* The memory of a default MemoryManager after add_message("user", h[i]) for
\* each utterance of h in turn.
RECURSIVE MemoryAfter(_)
MemoryAfter(h) ==
    IF h = <<>>
    THEN [messages |-> <<>>, mentioned_topics |-> {}, user_preferences |-> <<>>]
    ELSE LET before == MemoryAfter(SubSeq(h, 1, Len(h) - 1))
             content == h[Len(h)]
         IN  [messages |-> AppendMessage(before.messages, "user", content,
                                         DefaultMaxMessages),
              mentioned_topics |-> ExtractTopics(before.mentioned_topics, content),
              user_preferences |-> ExtractPreferences(before.user_preferences, content)]

\* get_context() of that memory.
ContextAfter(h) ==
    LET m == MemoryAfter(h)
    IN  GetContext(m.messages, m.mentioned_topics, m.user_preferences, <<>>)

MemoryContexts == { ContextAfter(h) : h \in Histories }

InitExtract ==
    /\ max_messages = DefaultMaxMessages
    /\ max_filters_history = DefaultMaxFiltersHistory
    /\ messages = <<>>
    /\ filters_history = <<>>
    /\ user_preferences = <<>>
    /\ mentioned_topics = {}
    /\ vehicles_db = <<>>
    /\ user_query \in Utterances
    /\ memory_context \in MemoryContexts
    /\ criteria = EmptyCriteria
    /\ filtered = <<>>
    /\ ranked = <<>>
    /\ vehicles = <<>>
    /\ has_enough_data = FALSE
    /\ NoSession
    /\ last_op = [op |-> "init"]

NextExtract == ExtractCriteria

SpecExtract == InitExtract /\ [][NextExtract]_vars

----------------------------------------------------------------------------
(* Claims about the extraction, checked under SpecExtract.                 *)

Extracted == last_op.op = "extract_criteria_from_query"

\* What the rules find in one text alone.
QueryLower == Lower(user_query)
MemoryLower == Lower(memory_context)
OfQueryAlone == ExtractCriteriaFromQuery(user_query, "")
MatchedTypes(text) ==
    { VEHICLE_TYPES[i].name : i \in { j \in 1..Len(VEHICLE_TYPES) :
        \E a \in 1..Len(VEHICLE_TYPES[j].aliases) :
            Contains(text, Lower(VEHICLE_TYPES[j].aliases[a])) } }
MatchedTopics(text) ==
    { TOPICS[i].name : i \in { j \in 1..Len(TOPICS) :
        \E k \in 1..Len(TOPICS[j].keywords) : Contains(text, TOPICS[j].keywords[k]) } }
MatchedMotors(text) ==
    { MOTOR_TYPES[i].name : i \in { j \in 1..Len(MOTOR_TYPES) :
        \E a \in 1..Len(MOTOR_TYPES[j].aliases) :
            Contains(text, Lower(MOTOR_TYPES[j].aliases[a])) } }
MatchedBrands(text) ==
    { BrandKeywords[i].canonical : i \in { j \in 1..Len(BrandKeywords) :
        Contains(text, BrandKeywords[j].kw) } }
Range(list) == { list[i] : i \in 1..Len(list) }

\* C2: for every single-valued field (gearbox, traction, price, power,
\* autonomy), whenever the utterance has a match for the field, the extracted
\* value is the utterance's value whatever the memory context holds, also when
\* the utterance's autonomy is 0.
C2_UtteranceWins ==
    Extracted =>
        /\ OfQueryAlone.gearbox # None => criteria.gearbox = OfQueryAlone.gearbox
        /\ OfQueryAlone.traction # None => criteria.traction = OfQueryAlone.traction
        /\ OfQueryAlone.price_range # <<>> =>
                criteria.price_range = OfQueryAlone.price_range
        /\ OfQueryAlone.power_range # <<>> =>
                criteria.power_range = OfQueryAlone.power_range
        /\ OfQueryAlone.autonomy_min # <<>> =>
                criteria.autonomy_min = OfQueryAlone.autonomy_min

C4_BrandsMotorsUnion ==
    Extracted =>
        /\ Range(criteria.brands) =
                MatchedBrands(QueryLower) \cup MatchedBrands(MemoryLower)
        /\ Range(criteria.motors) =
                MatchedMotors(QueryLower) \cup MatchedMotors(MemoryLower)

\* The signals of the sufficiency rule, read off the criteria.
HasType == criteria.vehicle_types # <<>>
HasTopic == criteria.topics # <<>>
HasPrice == criteria.price_range # <<>>
HasPower == criteria.power_range # <<>>
HasMotor == criteria.motors # <<>>
Count(signals) == Cardinality({ i \in 1..Len(signals) : signals[i] })

\* C5: when a vehicle type is detected, has_enough_data is true iff one of
\* topic, price, motor, power is detected too; a type alone is insufficient.
C5_SufficientWithType ==
    (Extracted /\ HasType) =>
        criteria.has_enough_data = (Count(<<HasTopic, HasPrice, HasMotor, HasPower>>) >= 1)

\* C5 witness: only a vehicle type was extracted, and the data is insufficient.
C5_Witness ==
    /\ Extracted /\ HasType
    /\ ~HasTopic /\ ~HasPrice /\ ~HasMotor /\ ~HasPower
    /\ ~criteria.has_enough_data

\* C6 as stated: when no vehicle type is detected, has_enough_data is true iff
\* at least 2 of topic, price, power are detected; a motor does not count.
C6_MotorNotCounted ==
    (Extracted /\ ~HasType) =>
        criteria.has_enough_data = (Count(<<HasTopic, HasPrice, HasPower>>) >= 2)

\* C6 amended: when no vehicle type is detected, has_enough_data is true iff
\* at least 2 of topic, price, power, motor are detected; a detected motor
\* counts as one signal like the other three.
C6_SufficientWithoutType ==
    (Extracted /\ ~HasType) =>
        criteria.has_enough_data =
            (Count(<<HasTopic, HasPrice, HasPower, HasMotor>>) >= 2)

\* C6 witness: no type, a motor and a price and nothing else, and the data is
\* sufficient.
C6_Witness ==
    /\ Extracted /\ ~HasType
    /\ HasMotor /\ HasPrice /\ ~HasTopic /\ ~HasPower
    /\ criteria.has_enough_data

\* The price literal the extraction detects: the utterance's, else the memory's.
QueryPriceLiteral == FirstNumber(QueryLower, PricePatterns)
MemoryPriceLiteral == FirstNumber(MemoryLower, PricePatterns)
DetectedPriceLiteral ==
    IF QueryPriceLiteral # <<>> THEN QueryPriceLiteral ELSE MemoryPriceLiteral

\* C7: a detected price literal p gives price_range (0, p * 1000) when
\* p < 500 and (0, p) when p >= 500, the same for a literal of the utterance
\* and of the memory; "30k" and "30000€" both give (0, 30000), 499 is
\* multiplied and 500 is not.
C7_PriceHeuristic ==
    Extracted =>
        /\ DetectedPriceLiteral # <<>> =>
                LET p == DetectedPriceLiteral[1]
                IN  criteria.price_range = <<0, IF p < 500 THEN p * 1000 ELSE p>>
        /\ user_query = "gasolina 30k" => criteria.price_range = <<0, 30000>>
        /\ user_query = "30000€" => criteria.price_range = <<0, 30000>>
        /\ user_query = "menos de 499" => criteria.price_range = <<0, 499000>>
        /\ user_query = "€500" => criteria.price_range = <<0, 500>>
        /\ (QueryPriceLiteral = <<>> /\ MemoryPriceLiteral = <<500>>) =>
                criteria.price_range = <<0, 500>>

\* C7 witness: the utterance holds no price and the memory holds the literal
\* 499, which is taken as 499000.
C7_Witness ==
    /\ Extracted
    /\ QueryPriceLiteral = <<>>
    /\ MemoryPriceLiteral = <<499>>
    /\ criteria.price_range = <<0, 499000>>


-----------------------------------------------------------------------------
(* CarRecommender.search_vehicles_by_criteria and _score_vehicles           *)
(* (src/car_recommender.py).  A vehicle is a record with the keys of the    *)
(* dict _load_vehicles_db returns; the key relevance_score is absent until  *)
(* _score_vehicles writes it.  The lists filtered, scored and ranked hold   *)
(* the catalog's own dict objects (list.copy() is shallow), so they are     *)
(* modelled as lists of positions in vehicles_db.  A score_* field holds    *)
(* the catalog's value in hundredths, so vehicle_score * 100 is the field.  *)

\* d.get(key, default)
Get(d, key, default) == IF key \in DOMAIN d THEN d[key] ELSE default

UpperChar(c) ==
    IF \E i \in 1..Len(LowerChars) : SubSeq(LowerChars, i, i) = c
    THEN LET i == CHOOSE j \in 1..Len(LowerChars) : SubSeq(LowerChars, j, j) = c
         IN  SubSeq(UpperChars, i, i)
    ELSE c

\* str.upper()
RECURSIVE Upper(_)
Upper(text) ==
    IF text = "" THEN ""
    ELSE IF Len(text) = 1 THEN UpperChar(text)
    ELSE Upper(SubSeq(text, 1, Len(text) \div 2))
             \o Upper(SubSeq(text, Len(text) \div 2 + 1, Len(text)))

\* [t.lower() for t in xs]
LowerAll(xs) == [i \in 1..Len(xs) |-> Lower(xs[i])]

\* type_keywords, the local table of the type filter
type_keywords == <<
    [key |-> "suv",
     kws |-> <<"suv", "audi q", "bmw x", "mercedes gle", "range rover", "jeep">>],
    [key |-> "compacto", kws |-> <<"compact", "polo", "fiesta", "ibiza", "i30">>],
    [key |-> "berlina",
     kws |-> <<"berlina", "sedan", "a4", "c-class", "3 series", "accord", "camry">>],
    [key |-> "familiar", kws |-> <<"familiar", "estate", "touring", "avant", "break">>],
    [key |-> "monovolumen", kws |-> <<"monovolumen", "mpv", "grand", "scenic">>],
    [key |-> "deportivo", kws |-> <<"coupé", "coupe", "gt", " m", " rs", " amg">>] >>

\* matches_any_type(v_name), with tipos_lower from the enclosing scope
matches_any_type(v_name, tipos_lower) ==
    LET name == Lower(v_name)
    IN  \E i \in 1..Len(tipos_lower) :
            \/ \E k \in 1..Len(type_keywords) :
                   /\ Contains(tipos_lower[i], type_keywords[k].key)
                   /\ AnyIn(type_keywords[k].kws, name)
            \/ Contains(name, tipos_lower[i])

\* Each filter is [v for v in filtered if ...] over the positions kept so far.

\* Tipo de vehículo
FilterTypes(db, refs, c) ==
    IF Len(c.vehicle_types) > 0
    THEN LET tipos_lower == LowerAll(c.vehicle_types)
         IN  SelectSeq(refs, LAMBDA r : matches_any_type(Get(db[r], "name", ""), tipos_lower))
    ELSE refs

\* Marca
FilterBrands(db, refs, c) ==
    IF Len(c.brands) > 0
    THEN LET brands == LowerAll(c.brands)
         IN  SelectSeq(refs, LAMBDA r : AnyIn(brands, Lower(Get(db[r], "name", ""))))
    ELSE refs

\* Cambio
FilterGearbox(db, refs, c) ==
    IF c.gearbox # None /\ c.gearbox # ""
    THEN LET gb == Lower(c.gearbox)
         IN  SelectSeq(refs, LAMBDA r : Contains(Lower(Get(db[r], "cambio", "")), gb))
    ELSE refs

\* Tracción
FilterTraction(db, refs, c) ==
    IF c.traction # None /\ c.traction # ""
    THEN SelectSeq(refs, LAMBDA r : c.traction = Upper(Get(db[r], "traccion", "")))
    ELSE refs

\* Precio: a tuple is truthy whatever its bounds are
FilterPrice(db, refs, c) ==
    IF c.price_range # <<>>
    THEN LET min_price == c.price_range[1]
             max_price == c.price_range[2]
         IN  SelectSeq(refs, LAMBDA r : /\ min_price <= Get(db[r], "precio", 0)
                                      /\ Get(db[r], "precio", 0) <= max_price)
    ELSE refs

\* Potencia
FilterPower(db, refs, c) ==
    IF c.power_range # <<>>
    THEN LET min_power == c.power_range[1]
             max_power == c.power_range[2]
         IN  SelectSeq(refs, LAMBDA r : /\ min_power <= Get(db[r], "potencia", 0)
                                      /\ Get(db[r], "potencia", 0) <= max_power)
    ELSE refs

\* Autonomía strictly-greater variant of the comparison
FilterAutonomyStrict(db, refs, c) ==
    IF ~Falsy(c.autonomy_min)
    THEN SelectSeq(refs, LAMBDA r : Get(db[r], "autonomia", 0) > c.autonomy_min[1])
    ELSE refs

\* Autonomía: a minimum of 0 is falsy and filters nothing
FilterAutonomy(db, refs, c) ==
    IF ~Falsy(c.autonomy_min)
    THEN SelectSeq(refs, LAMBDA r : Get(db[r], "autonomia", 0) >= c.autonomy_min[1])
    ELSE refs

\* filtered = self.vehicles_db.copy(), then the filters of lines 397-492 in
\* their order: the list the scoring receives.
FilterStage(db, c) ==
    LET all == [i \in 1..Len(db) |-> i]
        f1 == FilterTypes(db, all, c)
        f2 == FilterBrands(db, f1, c)
        f3 == FilterGearbox(db, f2, c)
        f4 == FilterTraction(db, f3, c)
        f5 == FilterPrice(db, f4, c)
        f6 == FilterPower(db, f5, c)
    IN  FilterAutonomy(db, f6, c)


\* d[key] = value on a dict
WithKey(d, key, value) ==
    [k \in DOMAIN d \cup {key} |-> IF k = key THEN value ELSE d[k]]

\* The score given to a vehicle whose topic sum is 0.
DefaultScore == 20

\* The loop over topics of _score_vehicles: score += vehicle_score * 100,
\* a missing score field counting as 0.
RECURSIVE TopicSum(_, _, _)
TopicSum(vehicle, topics, i) ==
    IF i > Len(topics) THEN 0
    ELSE Get(vehicle, "score_" \o topics[i], 0) + TopicSum(vehicle, topics, i + 1)

\* The topic sum stored as it is, 0 included.
RelevanceScoreNoDefault(vehicle, topics) == TopicSum(vehicle, topics, 1)

\* A default below every computed score.
RelevanceScoreDefaultOne(vehicle, topics) ==
    LET score == TopicSum(vehicle, topics, 1)
    IN  IF score = 0 THEN 1 ELSE score

\* The value _score_vehicles stores in vehicle["relevance_score"].
RelevanceScore(vehicle, topics) ==
    LET score == TopicSum(vehicle, topics, 1)
    IN  IF score = 0 THEN DefaultScore ELSE score

\* _score_vehicles(vehicles, topics): the score is written on the dict
\* itself, which is the catalog's; the returned list is `vehicles` again.
ScoreVehicles(db, refs, topics) ==
    [i \in 1..Len(db) |->
        IF InList(i, refs)
        THEN WithKey(db[i], "relevance_score", RelevanceScore(db[i], topics))
        ELSE db[i]]

\* key=lambda x: x.get("relevance_score", 0)
SortKey(db, r) == Get(db[r], "relevance_score", 0)

\* A descending sort that places an element before those of equal key.
InsertBeforeEqual(db, placed, r) ==
    LET n == Cardinality({ i \in 1..Len(placed) : SortKey(db, placed[i]) > SortKey(db, r) })
    IN  SubSeq(placed, 1, n) \o <<r>> \o SubSeq(placed, n + 1, Len(placed))

\* Where sorted(..., reverse=True) puts r among the elements that precede it
\* in the input: after every one whose key is at least r's (the sort is
\* stable, also when reversed).
InsertDescending(db, placed, r) ==
    LET n == Cardinality({ i \in 1..Len(placed) : SortKey(db, placed[i]) >= SortKey(db, r) })
    IN  SubSeq(placed, 1, n) \o <<r>> \o SubSeq(placed, n + 1, Len(placed))

\* sorted(scored, key=..., reverse=True), the first n elements of scored
RECURSIVE SortedDescending(_, _, _)
SortedDescending(db, scored, n) ==
    IF n = 0 THEN <<>>
    ELSE InsertDescending(db, SortedDescending(db, scored, n - 1), scored[n])

Ranked(db, scored) == SortedDescending(db, scored, Len(scored))

\* The number of vehicles returned.
TopK == 5

\* A slice one longer than ranked[:5].
TopRankedOneMore(rankedList) ==
    SubSeq(rankedList, 1, IF Len(rankedList) < TopK + 1 THEN Len(rankedList) ELSE TopK + 1)

\* ranked[:5]
TopRanked(rankedList) ==
    SubSeq(rankedList, 1, IF Len(rankedList) < TopK THEN Len(rankedList) ELSE TopK)

\* A flag that is only passed on when the catalog has vehicles.
ReturnedFlagOfCatalog(db, c) == c.has_enough_data /\ Len(db) > 0

\* The second element of both return statements: criteria["has_enough_data"].
ReturnedFlag(db, c) == c.has_enough_data

\* What search_vehicles_by_criteria(criteria, user_query) does.  With an
\* empty catalog it returns at once and no list is built.
search_vehicles_by_criteria ==
    /\ IF Len(vehicles_db) = 0
       THEN /\ vehicles_db' = vehicles_db
            /\ filtered' = <<>>
            /\ ranked' = <<>>
            /\ vehicles' = <<>>
       ELSE LET kept == FilterStage(vehicles_db, criteria)
                db == ScoreVehicles(vehicles_db, kept, criteria.topics)
                sorted == Ranked(db, kept)
            IN  /\ vehicles_db' = db
                /\ filtered' = kept
                /\ ranked' = sorted
                /\ vehicles' = TopRanked(sorted)
    /\ has_enough_data' = ReturnedFlag(vehicles_db, criteria)

\* A call of search_vehicles_by_criteria(criteria, user_query).
Search ==
    /\ search_vehicles_by_criteria
    /\ last_op' = [op |-> "search_vehicles_by_criteria"]
    /\ UNCHANGED <<memVars, extractVars, appVars, threads>>

-----------------------------------------------------------------------------
(* CarRecommender.generate_smart_response and the texts it returns          *)
(* (src/car_recommender.py).  The pictographs that open the questions and   *)
(* the closing hint in the source are left out of the texts, with the       *)
(* space that follows them; no rule of the extraction can match them.       *)

\* The questions of _generate_asking_response, in the order it appends them.
QuestionType ==
    "**¿Qué tipo de coche prefieres?**\n   (SUV, berlina, compacto, familiar, monovolumen, deportivo...)"
QuestionTopic ==
    "**¿Para qué lo vas a usar principalmente?**\n   (ciudad, familia, viajes largos, deportivo, offroad, lujo, económico...)"
QuestionPrice ==
    "**¿Cuál es tu presupuesto aproximado?**\n   (por ejemplo: 'menos de 25k', 'hasta 40k', 'entre 20k y 35k')"
QuestionMotor ==
    "**¿Alguna preferencia de motor?**\n   (Gasolina, Diésel, Híbrido, Híbrido Enchufable, Eléctrico)"
QuestionGearboxCity ==
    "**¿Prefieres cambio manual o automático?**\n   (para ciudad y atascos suele ser más cómodo automático)"
QuestionGearbox ==
    "**¿Cambio manual o automático?**\n   (si te da igual, dímelo también)"
QuestionTraction ==
    "**¿Alguna preferencia de tracción?**\n   (delantera, trasera o total/4x4)"

\* `questions` when the loop over questions[:3] starts.
Questions(c) ==
    (IF c.vehicle_types = <<>> THEN <<QuestionType>> ELSE <<>>)
    \o (IF c.topics = <<>> THEN <<QuestionTopic>> ELSE <<>>)
    \o (IF c.price_range = <<>> THEN <<QuestionPrice>> ELSE <<>>)
    \o (IF c.motors = <<>> THEN <<QuestionMotor>> ELSE <<>>)
    \o (IF c.gearbox = None
        THEN (IF InList("urbano", c.topics) \/ InList("eco", c.topics)
              THEN <<QuestionGearboxCity>> ELSE <<QuestionGearbox>>)
        ELSE <<>>)
    \o (IF c.traction = None /\ (InList("deportivo", c.topics) \/ InList("offroad", c.topics))
        THEN <<QuestionTraction>> ELSE <<>>)

\* The number of questions rendered at most.
MaxQuestions == 3

\* A slice that keeps the whole list.
TakeAll(xs, n) == xs

\* xs[:n]
Take(xs, n) == SubSeq(xs, 1, IF Len(xs) < n THEN Len(xs) ELSE n)

\* The lines of the loop `for q in questions[:3]`; the bullet character of
\* the source is written as an asterisk.
RECURSIVE Bullets(_)
Bullets(qs) ==
    IF qs = <<>> THEN "" ELSE "* " \o Head(qs) \o "\n" \o Bullets(Tail(qs))

\* _generate_asking_response(criteria, user_query)
AskingResponse(c) ==
    "Perfecto, déjame ayudarte a encontrar el coche ideal.\n\n"
    \o (IF c.vehicle_types # <<>>
        THEN "**He entendido que buscas:** " \o Upper(JoinComma(c.vehicle_types))
             \o (IF c.brands # <<>> THEN " (" \o Upper(JoinComma(c.brands)) \o ")" ELSE "")
             \o (IF c.topics # <<>> THEN " | Uso: " \o JoinComma(c.topics) ELSE "")
             \o "\n\n"
        ELSE IF c.topics # <<>>
        THEN "**He entendido que buscas:** " \o JoinComma(c.topics) \o "\n\n"
        ELSE "")
    \o "**Necesito que me aclares algunos detalles:**\n\n"
    \o Bullets(Take(Questions(c), MaxQuestions))
    \o "\nCuanto más concreto seas con estos puntos, más preciso será el resultado."

\* The texts of _fallback_response.
FallbackAsk ==
    "Para mejores recomendaciones, cuéntame: tipo de coche, presupuesto, y para qué lo quieres."
FallbackNoVehicles == "No encontré vehículos exactos. ¿Podríamos ajustar algo?"

\* The lines of the loop of _fallback_response from the i-th vehicle on:
\* number, name and price (f"{precio:,.0f}", the prices being whole numbers).
RECURSIVE FallbackLines(_, _, _)
FallbackLines(db, refs, i) ==
    IF i > Len(refs) THEN ""
    ELSE ToString(i) \o ". **" \o Get(db[refs[i]], "name", None) \o "** - €"
             \o GroupThousands(ToString(Get(db[refs[i]], "precio", 0))) \o "\n"
             \o FallbackLines(db, refs, i + 1)

\* _fallback_response(vehicles, has_enough_data)
FallbackResponse(db, refs, enough) ==
    IF ~enough THEN FallbackAsk
    ELSE IF refs = <<>> THEN FallbackNoVehicles
    ELSE "Encontré " \o ToString(Len(refs)) \o " vehículo(s):\n\n" \o FallbackLines(db, refs, 1)

\* The values interpolated in the prompt given to self.llm.complete (their
\* formatting into the prompt text is not modelled).
Prompt(query, context, c, refs) ==
    [user_query |-> query, memory_context |-> context, criteria |-> c, vehicles |-> refs]

\* What a call of self.llm.complete can do: return a text, which the model
\* words freely, or raise (service down, timeout, malformed reply).
LLMOutcomes ==
    { [raised |-> FALSE, text |-> "Te recomiendo el BMW X3: encaja con lo que buscas."],
      [raised |-> TRUE] }

\* A response for which a failed generation is not replaced but passed on.
SmartResponseUncaught(db, c, refs, enough, outcome) ==
    IF ~enough THEN AskingResponse(c)
    ELSE IF outcome.raised THEN None
    ELSE outcome.text

\* The text generate_smart_response returns, the call of the model ending
\* as `outcome` says when it is made.
SmartResponse(db, c, refs, enough, outcome) ==
    IF ~enough THEN AskingResponse(c)
    ELSE IF outcome.raised THEN FallbackResponse(db, refs, enough)
    ELSE outcome.text

\* What generate_smart_response(user_query, vehicles, memory_context, criteria,
\* has_enough_data) does: the model is called only with enough data.
generate_smart_response(outcome) ==
    /\ response' = SmartResponse(vehicles_db, criteria, vehicles, has_enough_data, outcome)
    /\ llm_calls' = IF has_enough_data
                    THEN Append(llm_calls, Prompt(user_query, memory_context, criteria, vehicles))
                    ELSE llm_calls

-----------------------------------------------------------------------------
(* The turn handler and the reset button of the app (src/app.py).  One run  *)
(* of the handler is a sequence of calls; pc is the call that comes next.   *)

\* st.session_state.recommender when init_recommender succeeded.
Recommender == "CarRecommender"

\* The most turns a session submits (the turn log and the log of calls of
\* the model grow with every turn).
MaxTurns == 2

\* A message in a chat.
TurnStart(user_input) ==
    /\ pc = "idle"
    /\ Len(chat_history) < 2 * MaxTurns
    /\ Len(llm_calls) < MaxTurns
    /\ chat_history' = Append(chat_history, Message("user", user_input))
    /\ add_message("user", user_input)
    /\ user_query' = user_input
    /\ presented' = <<>>
    /\ pc' = IF recommender # None THEN "get_context" ELSE "idle"
    /\ last_op' = [op |-> "chat_input", content |-> user_input]
    /\ UNCHANGED <<vehicles_db, memory_context, criteria, searchVars, recommender, response,
                   llm_calls, threads>>

\* memory_context = st.session_state.memory.get_context()
TurnGetContext ==
    /\ pc = "get_context"
    /\ memory_context' = GetContext(messages, mentioned_topics, user_preferences,
                                    filters_history)
    /\ pc' = "extract"
    /\ last_op' = [op |-> "get_context"]
    /\ UNCHANGED <<memVars, vehicles_db, user_query, criteria, searchVars, recommender,
                   chat_history, response, llm_calls, presented, threads>>

\* criteria = recommender.extract_criteria_from_query(user_input, memory_context)
TurnExtract ==
    /\ pc = "extract"
    /\ criteria' = ExtractCriteriaFromQuery(user_query, memory_context)
    /\ pc' = "search"
    /\ last_op' = [op |-> "extract_criteria_from_query"]
    /\ UNCHANGED <<memVars, vehicles_db, user_query, memory_context, searchVars, recommender,
                   chat_history, response, llm_calls, presented, threads>>

\* vehicles, has_enough_data = recommender.search_vehicles_by_criteria(criteria, user_input)
TurnSearch ==
    /\ pc = "search"
    /\ search_vehicles_by_criteria
    /\ pc' = "generate"
    /\ last_op' = [op |-> "search_vehicles_by_criteria"]
    /\ UNCHANGED <<memVars, extractVars, recommender, chat_history, response, llm_calls,
                   presented, threads>>

\* response = recommender.generate_smart_response(...)
TurnGenerate(outcome) ==
    /\ pc = "generate"
    /\ generate_smart_response(outcome)
    /\ pc' = "append"
    /\ last_op' = [op |-> "generate_smart_response",
                   llm |-> IF has_enough_data THEN outcome ELSE [raised |-> FALSE, text |-> None],
                   called |-> has_enough_data]
    /\ UNCHANGED <<memVars, vehicles_db, extractVars, searchVars, recommender, chat_history,
                   presented, threads>>

\* Vehicles shown whatever the flag says.
PresentedWhenFound(refs, enough) == Take(refs, TopK)

\* The vehicles under "Vehículos recomendados": vehicles[:5] if vehicles and
\* has_enough_data, none otherwise.
Presented(refs, enough) == IF refs # <<>> /\ enough THEN Take(refs, TopK) ELSE <<>>

\* The response is stored in the chat history and in the memory and shown,
\* with the recommended vehicles below it.
TurnAppend ==
    /\ pc = "append"
    /\ chat_history' = Append(chat_history, Message("assistant", response))
    /\ add_message("assistant", response)
    /\ presented' = Presented(vehicles, has_enough_data)
    /\ pc' = "idle"
    /\ last_op' = [op |-> "add_message", role |-> "assistant", content |-> response]
    /\ UNCHANGED <<vehicles_db, extractVars, searchVars, recommender, response, llm_calls,
                   threads>>

\* The button "Limpiar chat": an empty chat history and a new MemoryManager()
\* in place of the session's, then a rerun of the page.
ResetSession ==
    /\ pc = "idle"
    /\ chat_history' = <<>>
    /\ max_messages' = DefaultMaxMessages
    /\ max_filters_history' = DefaultMaxFiltersHistory
    /\ messages' = <<>>
    /\ filters_history' = <<>>
    /\ user_preferences' = <<>>
    /\ mentioned_topics' = {}
    /\ presented' = <<>>
    /\ last_op' = [op |-> "limpiar_chat"]
    /\ UNCHANGED <<vehicles_db, extractVars, searchVars, recommender, pc, response, llm_calls,
                   threads>>

\* clear() called on the session's memory between two turns (the app itself
\* replaces the object instead).
ClearMemory == pc = "idle" /\ Clear

\* add_filter_update(filters) called on the session's memory between two
\* turns, while the history holds no snapshot.
UpdateFilters(filters) ==
    /\ pc = "idle"
    /\ filters_history = <<>>
    /\ AddFilterUpdate(filters)

-----------------------------------------------------------------------------
(* One search: a loaded catalog and a criteria dict of the shape            *)
(* extract_criteria_from_query returns.                                     *)

\* The largest catalog.
MaxCatalog == 7

\* A vehicle as _clean_vehicle leaves it: every default key present.
Vehicle(id, name, precio, potencia, autonomia, cambio, traccion, scores) ==
    [id |-> id, name |-> name, precio |-> precio, potencia |-> potencia,
     aceleracion |-> 0, autonomia |-> autonomia, cambio |-> cambio, traccion |-> traccion,
     score_eco |-> scores[1], score_urbano |-> scores[2], score_familiar |-> scores[3],
     score_deportivo |-> scores[4], score_viajes |-> scores[5], score_offroad |-> scores[6]]

\* Catalog records; eco 80, 50, 80 on the first three.
Models == <<
    Vehicle("m1", "BMW X3", 52000, 190, 900, "Automático", "awd", <<80, 30, 70, 50, 80, 60>>),
    Vehicle("m2", "Seat Ibiza", 18000, 95, 700, "Manual", "FWD", <<50, 90, 30, 20, 40, 0>>),
    Vehicle("m3", "Audi Q3", 38000, 150, 400, "Automático 7 vel", "FWD", <<80, 30, 60, 40, 70, 30>>),
    Vehicle("m4", "Jeep Renegade", 30000, 170, 650, "Manual", "AWD", <<0, 0, 0, 0, 0, 0>>),
    Vehicle("m5", "BMW M4 Coupé", 95000, 510, 600, "Manual", "RWD", <<10, 5, 10, 95, 50, 0>>),
    Vehicle("m6", "Tesla Model 3", 42000, 283, 491, "Automático", "RWD", <<95, 70, 60, 70, 80, 10>>),
    Vehicle("m7", "Volkswagen Polo", 20000, 95, 650, "Manual", "N/A", <<80, 90, 30, 20, 40, 0>>),
    Vehicle("m8", "Audi A4 Avant", 45000, 204, 1000, "Automático", "AWD", <<50, 20, 90, 40, 90, 20>>),
    Vehicle("m9", "Range Rover Evoque SUV", 60000, 250, 700, "Automático", "AWD",
            <<30, 40, 60, 50, 70, 90>>) >>

Reverse(xs) == [i \in 1..Len(xs) |-> xs[Len(xs) + 1 - i]]

\* The catalogs: the first k records for every k up to MaxCatalog (none
\* included), and the longest of them in the opposite order.
Catalogs ==
    LET n == IF MaxCatalog < Len(Models) THEN MaxCatalog ELSE Len(Models)
    IN  { SubSeq(Models, 1, k) : k \in 0..n } \cup { Reverse(SubSeq(Models, 1, n)) }

\* Criteria dicts: every combination of these values of the fields the search
\* reads, with the flag the extraction computes for them.
SearchCriteria ==
    { [c EXCEPT !.has_enough_data = HasEnoughData(c)] :
        c \in [topics : {<<>>, <<"eco">>, <<"eco", "urbano", "lujo">>},
               vehicle_types : {<<>>, <<"SUV Coupé", "SUV">>, <<"Deportivo">>},
               brands : {<<>>, <<"bmw", "audi">>},
               motors : {<<>>},
               gearbox : {None, "Manual", "Automático"},
               traction : {None, "AWD"},
               price_range : {<<>>, <<0, 40000>>},
               power_range : {<<>>, <<150, 1000>>},
               autonomy_min : {<<>>, <<0>>, <<400>>},
               has_enough_data : {FALSE}] }

InitSearch ==
    /\ max_messages = DefaultMaxMessages
    /\ max_filters_history = DefaultMaxFiltersHistory
    /\ messages = <<>>
    /\ filters_history = <<>>
    /\ user_preferences = <<>>
    /\ mentioned_topics = {}
    /\ vehicles_db \in Catalogs
    /\ user_query = ""
    /\ memory_context = ""
    /\ criteria \in SearchCriteria
    /\ filtered = <<>>
    /\ ranked = <<>>
    /\ vehicles = <<>>
    /\ has_enough_data = FALSE
    /\ NoSession
    /\ last_op = [op |-> "init"]

NextSearch == Search

SpecSearch == InitSearch /\ [][NextSearch]_vars


-----------------------------------------------------------------------------
(* Claims about the search, checked under SpecSearch.                       *)

\* The state a call of search_vehicles_by_criteria leaves.
Searched == last_op.op = "search_vehicles_by_criteria"

\* The positions of the catalog, in catalog order.
CatalogOrder == [i \in 1..Len(vehicles_db) |-> i]

\* The predicate of each dimension, and whether the criteria populate it.
TypeOk(v, c) == matches_any_type(v.name, LowerAll(c.vehicle_types))
BrandOk(v, c) == \E i \in 1..Len(c.brands) : Contains(Lower(v.name), Lower(c.brands[i]))
GearboxOk(v, c) == Contains(Lower(v.cambio), Lower(c.gearbox))
TractionOk(v, c) == Upper(v.traccion) = c.traction
PriceOk(v, c) == c.price_range[1] <= v.precio /\ v.precio <= c.price_range[2]
PowerOk(v, c) == c.power_range[1] <= v.potencia /\ v.potencia <= c.power_range[2]
AutonomyOk(v, c) == v.autonomia >= c.autonomy_min[1]

\* v satisfies every populated dimension of c.
Satisfies(v, c) ==
    /\ c.vehicle_types # <<>> => TypeOk(v, c)
    /\ c.brands # <<>> => BrandOk(v, c)
    /\ c.gearbox # None => GearboxOk(v, c)
    /\ c.traction # None => TractionOk(v, c)
    /\ c.price_range # <<>> => PriceOk(v, c)
    /\ c.power_range # <<>> => PowerOk(v, c)
    /\ c.autonomy_min # <<>> => AutonomyOk(v, c)

\* No dimension the filters read is populated.
Unpopulated(c) ==
    /\ c.vehicle_types = <<>> /\ c.brands = <<>> /\ c.gearbox = None /\ c.traction = None
    /\ c.price_range = <<>> /\ c.power_range = <<>> /\ c.autonomy_min = <<>>

\* The seven filters applied in the opposite order, and price and power
\* exchanged within the code's order.
FilterStageBackwards(db, c) ==
    FilterTypes(db, FilterBrands(db, FilterGearbox(db, FilterTraction(db,
        FilterPrice(db, FilterPower(db, FilterAutonomy(db, CatalogOrder, c), c), c), c), c), c), c)
FilterStagePowerFirst(db, c) ==
    FilterAutonomy(db, FilterPrice(db, FilterPower(db, FilterTraction(db,
        FilterGearbox(db, FilterBrands(db, FilterTypes(db, CatalogOrder, c), c), c), c), c), c), c)

\* C8: after a search, the filtered list is exactly the catalog vehicles
\* that satisfy the predicate of every populated dimension (type, brand,
\* gearbox, traction, price, power, autonomy), in catalog order; criteria
\* with no populated dimension keep the whole catalog; and applying the
\* filters in another order (all reversed, or power before price) gives the
\* same list.
C8_FilterConjunction ==
    Searched =>
        /\ filtered = SelectSeq(CatalogOrder, LAMBDA r : Satisfies(vehicles_db[r], criteria))
        /\ Unpopulated(criteria) => filtered = CatalogOrder
        /\ FilterStageBackwards(vehicles_db, criteria) = filtered
        /\ FilterStagePowerFirst(vehicles_db, criteria) = filtered

\* A search with price, power and autonomy populated that keeps some
\* vehicles and removes others, one of the kept ones having exactly the
\* minimum autonomy.
C8_Witness ==
    /\ Searched
    /\ criteria.price_range # <<>> /\ criteria.power_range # <<>>
    /\ ~Falsy(criteria.autonomy_min)
    /\ 0 < Len(filtered) /\ Len(filtered) < Len(vehicles_db)
    /\ \E i \in 1..Len(filtered) :
           vehicles_db[filtered[i]].autonomia = criteria.autonomy_min[1]

\* The relevance_score of the vehicle at a catalog position.
ScoreAt(r) == vehicles_db[r].relevance_score

\* xs is in descending score order, equal scores in catalog order.
StableDescending(xs) ==
    \A i, j \in 1..Len(xs) :
        i < j => \/ ScoreAt(xs[i]) > ScoreAt(xs[j])
                 \/ ScoreAt(xs[i]) = ScoreAt(xs[j]) /\ xs[i] < xs[j]

\* C9: the ranked list, and so the returned list, is in descending order of
\* relevance_score, and vehicles of equal score are in their catalog order.
C9_StableDescending ==
    Searched => StableDescending(ranked) /\ StableDescending(vehicles)

\* A returned list where two vehicles of equal score come before a vehicle
\* of lower score that lies between them in the catalog (A, C, B).
C9_Witness ==
    /\ Searched
    /\ \E i, j, k \in 1..Len(vehicles) :
           /\ i < j /\ j < k
           /\ vehicles[i] < vehicles[k] /\ vehicles[k] < vehicles[j]
           /\ ScoreAt(vehicles[i]) = ScoreAt(vehicles[j])
           /\ ScoreAt(vehicles[j]) > ScoreAt(vehicles[k])

\* C10: a search returns min(5, number of vehicles passing the filters)
\* vehicles, never more than 5, all of them when fewer than 5 pass, none when
\* none passes; they are the first vehicles of the ranking, so no vehicle
\* left out has a higher score than a returned one.
C10_TopFive ==
    Searched =>
        /\ Len(vehicles) = (IF Len(filtered) < TopK THEN Len(filtered) ELSE TopK)
        /\ Len(vehicles) <= TopK
        /\ Len(ranked) = Len(filtered)
        /\ vehicles = SubSeq(ranked, 1, Len(vehicles))
        /\ \A i \in 1..Len(vehicles) : \A r \in 1..Len(vehicles_db) :
               InList(r, filtered) /\ ~InList(r, vehicles) => ScoreAt(r) <= ScoreAt(vehicles[i])

\* A search where more than 5 vehicles pass the filters and 5 are returned.
C10_Witness ==
    /\ Searched
    /\ Len(filtered) > TopK
    /\ Len(vehicles) = TopK

\* The score fields a catalog record has, by topic.
ScoredTopics == {"eco", "urbano", "familiar", "deportivo", "viajes", "offroad"}

\* What the requested topics add up to for vehicle v: the score field of
\* each requested topic that has one (held in hundredths, so times 100 it is
\* the field's number), nothing for the others.
RECURSIVE SumOfRequested(_, _)
SumOfRequested(v, topics) ==
    IF topics = <<>> THEN 0
    ELSE (IF Head(topics) \in ScoredTopics THEN v["score_" \o Head(topics)] ELSE 0)
             + SumOfRequested(v, Tail(topics))

\* C11: after a search, the relevance_score of every vehicle that passed the
\* filters is the sum over the requested topics of its score for the topic
\* times 100, topics without a score field (lujo, economico) adding 0; when
\* no topic is requested or the sum is 0, it is the default 20.
C11_RelevanceScore ==
    Searched =>
        \A i \in 1..Len(filtered) :
            LET v == vehicles_db[filtered[i]]
                sum == SumOfRequested(v, criteria.topics)
            IN  /\ criteria.topics = <<>> => v.relevance_score = DefaultScore
                /\ sum = 0 => v.relevance_score = DefaultScore
                /\ sum # 0 => v.relevance_score = sum

\* A search for eco, urbano and lujo where one vehicle gets the sum of its
\* eco and urbano scores and another, with both scores 0, gets 20.
C11_Witness ==
    /\ Searched
    /\ criteria.topics = <<"eco", "urbano", "lujo">>
    /\ \E i, j \in 1..Len(filtered) :
           LET v == vehicles_db[filtered[i]]
               w == vehicles_db[filtered[j]]
           IN  /\ v.score_eco > 0 /\ v.score_urbano > 0
               /\ v.relevance_score = v.score_eco + v.score_urbano
               /\ w.score_eco = 0 /\ w.score_urbano = 0
               /\ w.relevance_score = DefaultScore

\* C15: the flag a search returns is criteria["has_enough_data"], whatever
\* the catalog holds; with an empty catalog the returned list is empty and
\* the flag is still the criteria's.
C15_FlagIndependentOfCatalog ==
    Searched =>
        /\ has_enough_data = criteria.has_enough_data
        /\ Len(vehicles_db) = 0 => vehicles = <<>>

\* A search over an empty catalog that returns no vehicle and a true flag.
C15_Witness ==
    /\ Searched
    /\ Len(vehicles_db) = 0
    /\ vehicles = <<>>
    /\ criteria.has_enough_data
    /\ has_enough_data

\* C16: no step changes a record of the catalog: vehicles_db is after every
\* call what it was before it.
C16_CatalogImmutable == [][vehicles_db' = vehicles_db]_vars

-----------------------------------------------------------------------------
(* Every public call of a MemoryManager, in any order.                      *)

\* The turns added: two of the user, one of the assistant.
CallTurns ==
    { Message("user", "Busco un SUV barato"),
      Message("user", "lo quiero ELECTRICO y manual"),
      Message("assistant",
              "Para mejores recomendaciones, cuéntame: ¿gasolina o diesel, manual o automatico?") }

\* Filter dicts: one without most keys.
FilterDicts == { [precio_max |-> 1250000, autonomia_min |-> 400] }

\* Exported memories: one with a turn, a filter record, a preference and a
\* topic.
Exports ==
    { [messages |-> <<Message("user", "algo de lujo")>>,
       filters_history |-> <<FilterRecord([precio_max |-> 1250000, autonomia_min |-> 400])>>,
       user_preferences |-> <<[key |-> "motor_preference", value |-> "Gasolina"]>>,
       mentioned_topics |-> {"lujo"}] }

InitMemoryCalls ==
    /\ max_messages \in 1..MaxCapacity
    /\ max_filters_history \in 1..MaxFilterCapacity
    /\ messages = <<>>
    /\ filters_history = <<>>
    /\ user_preferences = <<>>
    /\ mentioned_topics = {}
    /\ vehicles_db = <<>>
    /\ user_query = ""
    /\ memory_context = ""
    /\ criteria = EmptyCriteria
    /\ filtered = <<>>
    /\ ranked = <<>>
    /\ vehicles = <<>>
    /\ has_enough_data = FALSE
    /\ NoSession
    /\ last_op = [op |-> "init"]

NextMemoryCalls ==
    \/ \E turn \in CallTurns : AddMessage(turn.role, turn.content)
    \/ \E filters \in FilterDicts : AddFilterUpdate(filters)
    \/ GetContextCall
    \/ GetSummary
    \/ \E data \in Exports : ImportMemory(data)
    \/ Clear

SpecMemoryCalls == InitMemoryCalls /\ [][NextMemoryCalls]_vars

-----------------------------------------------------------------------------
(* Claims about the memory's calls, checked under SpecMemoryCalls.          *)

\* C12: no call other than clear() removes a topic from mentioned_topics:
\* add_message, add_filter_update, get_context, get_summary and import_memory
\* leave every topic in it; and clear() leaves it empty.
C12_TopicsMonotone ==
    [][/\ last_op'.op # "clear" => mentioned_topics \subseteq mentioned_topics'
       /\ last_op'.op = "clear" => mentioned_topics' = {}]_vars

\* A memory with topics from a turn and from an import, whose originating
\* turn is no longer in the log, and that a get_context has just read.
C12_Witness ==
    /\ last_op.op = "get_context"
    /\ {"economico", "lujo"} \subseteq mentioned_topics
    /\ \A i \in 1..Len(messages) : messages[i].content # "Busco un SUV barato"
    /\ filters_history # <<>>

-----------------------------------------------------------------------------
(* One session of the app: the recommender, loaded or not, and the turns    *)
(* and resets of one user.                                                  *)

\* What the user writes: a greeting, a request with matches in the catalog
\* and a request with none.
SessionInputs == {"hola", "Busco un SUV barato", "monovolumen diesel"}

\* The catalog of the session's recommender.
SessionCatalog ==
    SubSeq(Models, 1, IF MaxCatalog < Len(Models) THEN MaxCatalog ELSE Len(Models))

InitSession ==
    /\ max_messages = DefaultMaxMessages
    /\ max_filters_history = DefaultMaxFiltersHistory
    /\ messages = <<>>
    /\ filters_history = <<>>
    /\ user_preferences = <<>>
    /\ mentioned_topics = {}
    /\ recommender \in {Recommender, None}
    /\ vehicles_db \in (IF recommender = None THEN {<<>>} ELSE {<<>>, SessionCatalog})
    /\ user_query = ""
    /\ memory_context = ""
    /\ criteria = EmptyCriteria
    /\ filtered = <<>>
    /\ ranked = <<>>
    /\ vehicles = <<>>
    /\ has_enough_data = FALSE
    /\ chat_history = <<>>
    /\ pc = "idle"
    /\ response = ""
    /\ llm_calls = <<>>
    /\ presented = <<>>
    /\ threads = <<>>
    /\ last_op = [op |-> "init"]

NextSession ==
    \/ \E user_input \in SessionInputs : TurnStart(user_input)
    \/ TurnGetContext
    \/ TurnExtract
    \/ TurnSearch
    \/ \E outcome \in LLMOutcomes : TurnGenerate(outcome)
    \/ TurnAppend
    \/ ResetSession

SpecSession == InitSession /\ [][NextSession]_vars

-----------------------------------------------------------------------------
(* Claims about the turns of a session, checked under SpecSession.          *)

\* The state generate_smart_response leaves, and whether the model was
\* called in it and failed.
Generated == last_op.op = "generate_smart_response"
LLMFailed == Generated /\ last_op.called /\ last_op.llm.raised

\* The list of the ranked vehicles from the i-th on, each with its number,
\* name and price.
RECURSIVE NamesAndPrices(_, _)
NamesAndPrices(refs, i) ==
    IF refs = <<>> THEN ""
    ELSE ToString(i) \o ". **" \o vehicles_db[Head(refs)].name \o "** - €"
             \o GroupThousands(ToString(vehicles_db[Head(refs)].precio)) \o "\n"
             \o NamesAndPrices(Tail(refs), i + 1)

\* C13: when the call of the text generator fails in generate_smart_response,
\* the handler goes on with a response, which is the deterministic fallback:
\* with enough data and vehicles the list of the ranked vehicles with name and
\* price, with enough data and no vehicle the no-match text. Without enough
\* data the generator is not called, so that it fails with enough data only.
C13_FailureCaught ==
    LLMFailed =>
        /\ pc = "append"
        /\ response # None
        /\ has_enough_data /\ vehicles # <<>> =>
               response = "Encontré " \o ToString(Len(vehicles)) \o " vehículo(s):\n\n"
                              \o NamesAndPrices(vehicles, 1)
        /\ has_enough_data /\ vehicles = <<>> => response = FallbackNoVehicles
        /\ has_enough_data

\* A failed generation with enough data and several ranked vehicles.
C13_Witness ==
    /\ LLMFailed
    /\ has_enough_data
    /\ Len(vehicles) > 1
    /\ Contains(response, "1. **BMW X3** - €52,000\n")

\* C14: when has_enough_data is true and no vehicle passes the filters, the
\* response of the turn is the no-match text, the text generator answering
\* or not.
C14_NoMatchMessage ==
    Generated /\ has_enough_data /\ vehicles = <<>> => response = FallbackNoVehicles

\* The steps of the handler of a turn, in the order of the code.
TurnSteps == <<"idle", "get_context", "extract", "search", "generate", "append">>

\* The position after position p.
NextStep(p) ==
    LET i == CHOOSE j \in 1..Len(TurnSteps) : TurnSteps[j] = p
    IN  TurnSteps[(i % Len(TurnSteps)) + 1]

\* The turns of a log alternate, a user turn first and an assistant turn last.
Alternates(log) ==
    /\ Len(log) % 2 = 0
    /\ \A i \in 1..Len(log) : log[i].role = (IF i % 2 = 1 THEN "user" ELSE "assistant")

LLMTexts == { o.text : o \in { x \in LLMOutcomes : ~x.raised } }

\* C20: a turn ends in one of two ways, which has_enough_data decides alone.
\* ASK: the response is the text of clarifying questions, the generator is not
\* called and no vehicle is shown. RECOMMEND: the generator is called once
\* with the ranked vehicles and the response is its text, or the fallback if
\* it fails. No other step calls the generator, and no step is repeated.
C20_AskOrRecommend ==
    [][ /\ pc = "generate" /\ ~has_enough_data =>
               /\ pc' = "append"
               /\ response' = AskingResponse(criteria)
               /\ llm_calls' = llm_calls
        /\ pc = "generate" /\ has_enough_data =>
               /\ pc' = "append"
               /\ Len(llm_calls') = Len(llm_calls) + 1
               /\ llm_calls'[Len(llm_calls')].vehicles = vehicles
               /\ llm_calls'[Len(llm_calls')].criteria = criteria
               /\ response' \in LLMTexts \cup {FallbackResponse(vehicles_db, vehicles, TRUE)}
        /\ pc # "generate" => llm_calls' = llm_calls
        /\ pc = "append" =>
               /\ pc' = "idle"
               /\ chat_history'[Len(chat_history')].content = response
               /\ ~has_enough_data => presented' = <<>>
               /\ has_enough_data => presented' = vehicles ]_vars

\* A session whose first turn ended in ASK although vehicles passed the
\* filters, and whose second turn ended in RECOMMEND with vehicles shown.
C20_Witness ==
    /\ pc = "idle"
    /\ Len(chat_history) = 4
    /\ Len(llm_calls) = 1
    /\ Contains(chat_history[2].content, QuestionType)
    /\ chat_history[4].content \in LLMTexts
    /\ has_enough_data
    /\ presented # <<>>
    /\ presented = vehicles

-----------------------------------------------------------------------------
(* A session without recommender (init_recommender returned None): every    *)
(* message goes to the chat history and to the memory, and nothing answers. *)
(* Between the messages the memory is cleared and given filter updates, and *)
(* the session is reset.                                                    *)

InitReset == InitSession /\ recommender = None

NextReset ==
    \/ \E user_input \in SessionInputs : TurnStart(user_input)
    \/ \E filters \in FilterDicts : UpdateFilters(filters)
    \/ ClearMemory
    \/ ResetSession

SpecReset == InitReset /\ [][NextReset]_vars

\* C18: clear() empties the turns, the filter snapshots, the preferences and
\* the topics in one step and leaves the capacities and the chat history; the
\* reset of the session leaves the memory as MemoryManager() creates it, with
\* the default capacities and nothing stored, and an empty chat history.
C18_ClearAndReset ==
    [][ /\ last_op'.op = "clear" =>
               /\ messages' = <<>>
               /\ filters_history' = <<>>
               /\ user_preferences' = <<>>
               /\ mentioned_topics' = {}
               /\ max_messages' = max_messages
               /\ max_filters_history' = max_filters_history
               /\ chat_history' = chat_history
        /\ last_op'.op = "limpiar_chat" =>
               /\ memVars' = <<DefaultMaxMessages, DefaultMaxFiltersHistory, <<>>, <<>>, <<>>, {}>>
               /\ chat_history' = <<>> ]_vars

\* A memory cleared after the messages "Busco un SUV barato", which left a
\* topic, and "monovolumen diesel", which left a preference.
C18_Witness ==
    /\ last_op.op = "clear"
    /\ messages = <<>> /\ filters_history = <<>>
    /\ user_preferences = <<>> /\ mentioned_topics = {}
    /\ Len(chat_history) > 1
    /\ chat_history[Len(chat_history) - 1].content = "Busco un SUV barato"
    /\ chat_history[Len(chat_history)].content = "monovolumen diesel"

-----------------------------------------------------------------------------
(* Two sessions searching at once.  init_recommender is cached with         *)
(* st.cache_resource, so that the sessions, each run in a thread of its own, *)
(* call search_vehicles_by_criteria on one CarRecommender and one           *)
(* vehicles_db.  A thread's search is taken in four steps: the filters, the *)
(* scoring, the sort and the return; a thread may be switched out between   *)
(* any two of them (and inside them, which is left out here).               *)

Sessions == {"A", "B"}

\* The criteria of the two searches: no filter, and the topics of the turn.
ConcurrentTopics == {<<>>, <<"eco">>, <<"urbano">>}

\* The locals of a search that has not begun.
Frame(c) == [pc |-> "start", criteria |-> c, filtered |-> <<>>, ranked |-> <<>>,
             vehicles |-> <<>>]

\* filtered = self.vehicles_db.copy() and the filters; an empty catalog
\* returns at once.
ThreadFilter(s) ==
    /\ threads[s].pc = "start"
    /\ threads' = [threads EXCEPT
                     ![s].filtered = FilterStage(vehicles_db, threads[s].criteria),
                     ![s].pc = IF Len(vehicles_db) = 0 THEN "returned" ELSE "filtered"]
    /\ last_op' = [op |-> "filter", session |-> s]
    /\ UNCHANGED <<memVars, vehicles_db, extractVars, searchVars, appVars>>

\* scored = self._score_vehicles(filtered, criteria["topics"])
ThreadScore(s) ==
    /\ threads[s].pc = "filtered"
    /\ vehicles_db' = ScoreVehicles(vehicles_db, threads[s].filtered,
                                    threads[s].criteria.topics)
    /\ threads' = [threads EXCEPT ![s].pc = "scored"]
    /\ last_op' = [op |-> "_score_vehicles", session |-> s]
    /\ UNCHANGED <<memVars, extractVars, searchVars, appVars>>

\* ranked = sorted(scored, key=lambda x: x.get("relevance_score", 0), reverse=True)
ThreadSort(s) ==
    /\ threads[s].pc = "scored"
    /\ threads' = [threads EXCEPT ![s].ranked = Ranked(vehicles_db, threads[s].filtered),
                                  ![s].pc = "sorted"]
    /\ last_op' = [op |-> "sorted", session |-> s]
    /\ UNCHANGED <<memVars, vehicles_db, extractVars, searchVars, appVars>>

\* return ranked[:5], criteria["has_enough_data"]
ThreadReturn(s) ==
    /\ threads[s].pc = "sorted"
    /\ threads' = [threads EXCEPT ![s].vehicles = TopRanked(threads[s].ranked),
                                  ![s].pc = "returned"]
    /\ last_op' = [op |-> "return", session |-> s]
    /\ UNCHANGED <<memVars, vehicles_db, extractVars, searchVars, appVars>>

InitConcurrent ==
    /\ max_messages = DefaultMaxMessages
    /\ max_filters_history = DefaultMaxFiltersHistory
    /\ messages = <<>>
    /\ filters_history = <<>>
    /\ user_preferences = <<>>
    /\ mentioned_topics = {}
    /\ vehicles_db \in {<<>>, SessionCatalog}
    /\ user_query = ""
    /\ memory_context = ""
    /\ criteria = EmptyCriteria
    /\ filtered = <<>>
    /\ ranked = <<>>
    /\ vehicles = <<>>
    /\ has_enough_data = FALSE
    /\ recommender = Recommender
    /\ chat_history = <<>>
    /\ pc = "idle"
    /\ response = ""
    /\ llm_calls = <<>>
    /\ presented = <<>>
    /\ threads \in [Sessions -> { Frame([EmptyCriteria EXCEPT !.topics = t]) :
                                   t \in ConcurrentTopics }]
    /\ last_op = [op |-> "init"]

NextConcurrent ==
    \/ \E s \in Sessions : ThreadFilter(s)
    \/ \E s \in Sessions : ThreadScore(s)
    \/ \E s \in Sessions : ThreadSort(s)
    \/ \E s \in Sessions : ThreadReturn(s)

SpecConcurrent == InitConcurrent /\ [][NextConcurrent]_vars

\* The list the search of session s returns when no other search runs.
RankedAlone(s) ==
    LET c == threads[s].criteria
        kept == FilterStage(vehicles_db, c)
        db == ScoreVehicles(vehicles_db, kept, c.topics)
    IN  IF Len(vehicles_db) = 0 THEN <<>> ELSE TopRanked(Ranked(db, kept))

\* C17: with two sessions searching on the shared recommender, the list a
\* session's search returns has the members and the order of the list the
\* search returns when the other session does not run, however the steps of
\* the two searches interleave.
C17_SessionsIsolated ==
    \A s \in Sessions : threads[s].pc = "returned" => threads[s].vehicles = RankedAlone(s)

-----------------------------------------------------------------------------
(* Further claims about the extraction, checked under SpecExtract.          *)

\* The utterances whose only number is a distance in km, with the number.
DistanceUtterances == {<<"bmw diesel 400 km", 400>>, <<"0 km", 0>>}

\* C30: from an utterance whose only number is a distance with unit km, and
\* an empty memory, the extraction sets autonomy_min to the number and leaves
\* price_range absent, so that the number is no price signal.
C30_DistanceIsNoPrice ==
    \A d \in DistanceUtterances :
        Extracted /\ user_query = d[1] /\ memory_context = ContextAfter(<<>>) =>
            /\ criteria.autonomy_min = <<d[2]>>
            /\ criteria.price_range = <<>>
            /\ ~HasPrice

-----------------------------------------------------------------------------
(* Further claims about the search, checked under SpecSearch.               *)

\* The positions in the ranked list of a vehicle whose topic sum is 0 and of
\* one whose topic sum is above 0 and below the default.
DefaultAndWeak ==
    { p \in (1..Len(ranked)) \X (1..Len(ranked)) :
        /\ SumOfRequested(vehicles_db[ranked[p[1]]], criteria.topics) = 0
        /\ SumOfRequested(vehicles_db[ranked[p[2]]], criteria.topics) > 0
        /\ SumOfRequested(vehicles_db[ranked[p[2]]], criteria.topics) < DefaultScore }

\* C25: after a search with requested topics, a vehicle whose topic sum is 0
\* has score 20 and stands in the ranked list before every vehicle whose
\* topic sum is above 0 and below 20.
C25_DefaultAboveWeak ==
    Searched /\ criteria.topics # <<>> =>
        \A p \in DefaultAndWeak :
            /\ ScoreAt(ranked[p[1]]) = DefaultScore
            /\ ScoreAt(ranked[p[2]]) < DefaultScore
            /\ p[1] < p[2]

\* A search for eco where the vehicle with eco score 0 is ranked before the
\* one with eco score 0.10, which follows it in the catalog and in the list.
C25_Witness ==
    /\ Searched
    /\ criteria.topics = <<"eco">>
    /\ \E p \in DefaultAndWeak :
           /\ vehicles_db[ranked[p[1]]].name = "Jeep Renegade"
           /\ vehicles_db[ranked[p[2]]].name = "BMW M4 Coupé"
           /\ ScoreAt(ranked[p[2]]) = 10

-----------------------------------------------------------------------------
(* Further claims about the turns of a session, checked under SpecSession.  *)

\* The turns of the user in a log.
UserTurns(msgs) == SelectSeq(msgs, LAMBDA m : m.role = "user")

\* The criteria of the current turn when only what the user wrote is read:
\* the context rendered without the assistant turns.
CriteriaOfUserText ==
    ExtractCriteriaFromQuery(user_query,
        GetContext(UserTurns(messages), mentioned_topics, user_preferences, filters_history))

\* C28: the criteria of a turn hold the vehicle types, topics, motors and
\* price the user's own turns give, and nothing from the text of the
\* assistant's responses in memory; so a turn that matches no rule, after a
\* turn answered with questions, is answered with questions again.
C28_OnlyUserText ==
    pc \in {"search", "generate", "append"} =>
        /\ criteria.vehicle_types = CriteriaOfUserText.vehicle_types
        /\ criteria.topics = CriteriaOfUserText.topics
        /\ criteria.motors = CriteriaOfUserText.motors
        /\ criteria.price_range = CriteriaOfUserText.price_range
        /\ criteria.has_enough_data = CriteriaOfUserText.has_enough_data

-----------------------------------------------------------------------------
(* A memory of some capacity that takes the turns of a conversation: for a  *)
(* user turn the handler stores the utterance, renders the context and      *)
(* extracts the criteria; the answers are stored as assistant turns.        *)

\* The utterances of the user, one of them naming a topic, and the answer.
PersistUtterances == {"algo de lujo", "hola"}
PersistAnswer == "Entendido."

\* memory.add_message("user", user_input), memory.get_context() and
\* extract_criteria_from_query(user_input, memory_context) of the handler.
ExtractTurn(user_input) ==
    /\ add_message("user", user_input)
    /\ user_query' = user_input
    /\ memory_context' = GetContext(messages', mentioned_topics', user_preferences',
                                    filters_history)
    /\ criteria' = ExtractCriteriaFromQuery(user_input, memory_context')
    /\ last_op' = [op |-> "extract_criteria_from_query"]
    /\ UNCHANGED <<vehicles_db, searchVars, appVars, threads>>

NextPersist ==
    \/ \E user_input \in PersistUtterances : ExtractTurn(user_input)
    \/ AddMessage("assistant", PersistAnswer)
    \/ Clear

SpecPersist == InitMemoryCalls /\ [][NextPersist]_vars

\* The topic names of config.TOPICS, and the keywords of a topic.
ConfigTopicNames == { TOPICS[i].name : i \in 1..Len(TOPICS) }
ConfigKeywords(name) ==
    LET i == CHOOSE j \in 1..Len(TOPICS) : TOPICS[j].name = name
    IN  Range(TOPICS[i].keywords)

\* Some stored turn names topic t.
TurnNames(t) ==
    \E i \in 1..Len(messages) :
        \E j \in 1..Len(MemoryTopics) :
            /\ MemoryTopics[j].topic = t
            /\ AnyIn(MemoryTopics[j].keywords, Lower(messages[i].content))

\* C27: every topic of the memory's topic set is in the topics of the
\* criteria extracted in a turn, whether or not a stored turn still names it:
\* the context has the line of the topic names, and each topic the memory can
\* hold is a topic of config.TOPICS with its own name among its keywords.
\* The topic set is only emptied by clear() or a new memory.
C27_TopicsPersist ==
    /\ \A j \in 1..Len(MemoryTopics) :
           /\ MemoryTopics[j].topic \in ConfigTopicNames
           /\ MemoryTopics[j].topic \in ConfigKeywords(MemoryTopics[j].topic)
    /\ Extracted => \A t \in mentioned_topics : InList(t, criteria.topics)

\* A turn "hola" whose criteria hold the topic lujo although the turn that
\* named it has left the log.
C27_Witness ==
    /\ Extracted
    /\ user_query = "hola"
    /\ mentioned_topics = {"lujo"}
    /\ ~TurnNames("lujo")
    /\ Len(messages) = max_messages
    /\ criteria.topics = <<"lujo">>

-----------------------------------------------------------------------------
(* Further claims about the calls of the memory, checked under              *)
(* SpecMemoryCalls.                                                         *)

\* The value of a preference, None when it was not learned.
PreferenceOf(prefs, key) ==
    IF \E i \in 1..Len(prefs) : prefs[i].key = key
    THEN prefs[CHOOSE i \in 1..Len(prefs) : prefs[i].key = key].value
    ELSE None

\* The motor and the gearbox a text names, None when it names none.
MotorNamed(text) ==
    LET t == Lower(text)
        has(kw) == Contains(t, kw)
    IN  CASE has("electrico") \/ has("ev") \/ has("electrica") -> "Eléctrico"
          [] has("hibrido") \/ has("phev") -> "Híbrido"
          [] has("gasolina") \/ has("nafta") -> "Gasolina"
          [] has("diesel") -> "Diésel"
          [] OTHER -> None
GearboxNamed(text) ==
    LET t == Lower(text)
    IN  CASE Contains(t, "manual") -> "Manual"
          [] Contains(t, "automatico") \/ Contains(t, "automática") -> "Automático"
          [] OTHER -> None

\* C24: add_message with a role other than "user" leaves the topics and the
\* preferences as they are; with role "user" motor_preference, and likewise
\* cambio_preference, becomes the value the text names, replacing the value
\* it had, and keeps its value when the text names none.
C24_PreferencesLastWins ==
    [][ last_op'.op = "add_message" =>
          /\ last_op'.role # "user" =>
                 /\ mentioned_topics' = mentioned_topics
                 /\ user_preferences' = user_preferences
          /\ last_op'.role = "user" =>
                 /\ PreferenceOf(user_preferences', "motor_preference") =
                        (IF MotorNamed(last_op'.content) # None
                         THEN MotorNamed(last_op'.content)
                         ELSE PreferenceOf(user_preferences, "motor_preference"))
                 /\ PreferenceOf(user_preferences', "cambio_preference") =
                        (IF GearboxNamed(last_op'.content) # None
                         THEN GearboxNamed(last_op'.content)
                         ELSE PreferenceOf(user_preferences, "cambio_preference")) ]_vars

\* A user turn has replaced the imported motor preference Gasolina by
\* Eléctrico, and an assistant turn that names gasolina, diesel and
\* automatico is in the log.
C24_Witness ==
    /\ last_op.op = "add_message" /\ last_op.role = "user"
    /\ last_op.content = "lo quiero ELECTRICO y manual"
    /\ PreferenceOf(user_preferences, "motor_preference") = "Eléctrico"
    /\ \E i, j \in 1..Len(messages) :
           /\ i < j
           /\ messages[i].content = "algo de lujo"
           /\ messages[j].role = "assistant"
           /\ MotorNamed(messages[j].content) = "Gasolina"

-----------------------------------------------------------------------------
(* One call of _generate_asking_response, on a criteria dict a caller hands *)
(* over or on the criteria extracted from an utterance.                     *)

\* Criteria dicts: every combination of present and absent fields, with the
\* flag the extraction computes for them.
AskCriteria ==
    { [c EXCEPT !.has_enough_data = HasEnoughData(c)] :
        c \in [topics : {<<>>, <<"eco">>, <<"deportivo">>, <<"familiar", "offroad">>},
               vehicle_types : {<<>>, <<"SUV Coupé", "SUV">>},
               brands : {<<>>, <<"bmw", "citroën">>},
               motors : {<<>>, <<"Diésel">>},
               gearbox : {None, "Manual"},
               traction : {None, "AWD"},
               price_range : {<<>>, <<0, 40000>>},
               power_range : {<<>>, <<150, 1000>>},
               autonomy_min : {<<>>},
               has_enough_data : {FALSE}] }

InitAsk ==
    /\ max_messages = DefaultMaxMessages
    /\ max_filters_history = DefaultMaxFiltersHistory
    /\ messages = <<>>
    /\ filters_history = <<>>
    /\ user_preferences = <<>>
    /\ mentioned_topics = {}
    /\ vehicles_db = <<>>
    /\ \/ user_query = "" /\ criteria \in AskCriteria
       \/ user_query \in Utterances /\ criteria = EmptyCriteria
    /\ memory_context = ""
    /\ filtered = <<>>
    /\ ranked = <<>>
    /\ vehicles = <<>>
    /\ has_enough_data = FALSE
    /\ recommender = Recommender
    /\ chat_history = <<>>
    /\ pc = "idle"
    /\ response = ""
    /\ llm_calls = <<>>
    /\ presented = <<>>
    /\ threads = <<>>
    /\ last_op = [op |-> "init"]

\* response = self._generate_asking_response(criteria, user_query)
GenerateAsking ==
    /\ response' = AskingResponse(criteria)
    /\ last_op' = [op |-> "_generate_asking_response",
                   extracted |-> last_op.op = "extract_criteria_from_query"]
    /\ UNCHANGED <<memVars, vehicles_db, extractVars, searchVars, recommender, chat_history,
                   pc, llm_calls, presented, threads>>

NextAsk ==
    \/ user_query # "" /\ last_op.op = "init" /\ ExtractCriteria
    \/ GenerateAsking

SpecAsk == InitAsk /\ [][NextAsk]_vars

\* The state _generate_asking_response leaves.
Asked == last_op.op = "_generate_asking_response"

\* The six dimensions in the order they are asked about, and the question
\* about each.
Dimensions == <<"type", "topic", "budget", "motor", "gearbox", "traction">>
QuestionAbout(dim, c) ==
    CASE dim = "type" -> QuestionType
      [] dim = "topic" -> QuestionTopic
      [] dim = "budget" -> QuestionPrice
      [] dim = "motor" -> QuestionMotor
      [] dim = "gearbox" -> IF "eco" \in Range(c.topics) \/ "urbano" \in Range(c.topics)
                            THEN QuestionGearboxCity ELSE QuestionGearbox
      [] dim = "traction" -> QuestionTraction

\* The dimension is absent from the criteria, and for the traction the
\* topics include deportivo or offroad.
Applicable(dim, c) ==
    CASE dim = "type" -> c.vehicle_types = <<>>
      [] dim = "topic" -> c.topics = <<>>
      [] dim = "budget" -> c.price_range = <<>>
      [] dim = "motor" -> c.motors = <<>>
      [] dim = "gearbox" -> c.gearbox = None
      [] dim = "traction" -> c.traction = None /\ Range(c.topics) \cap {"deportivo", "offroad"} # {}

\* The dimensions asked about: the first three applicable ones.
FirstApplicable(c) ==
    LET all == SelectSeq(Dimensions, LAMBDA d : Applicable(d, c))
    IN  SubSeq(all, 1, IF Len(all) < 3 THEN Len(all) ELSE 3)

\* The dimensions whose question is in the response.
Rendered(c) ==
    { Dimensions[i] : i \in { j \in 1..Len(Dimensions) :
        Contains(response, "* " \o QuestionAbout(Dimensions[j], c) \o "\n") } }

\* The lines of the questions about dims, one after the other.
RECURSIVE QuestionLines(_, _)
QuestionLines(dims, c) ==
    IF dims = <<>> THEN ""
    ELSE "* " \o QuestionAbout(Head(dims), c) \o "\n" \o QuestionLines(Tail(dims), c)

\* C21: the response of _generate_asking_response has the questions about
\* the first three applicable dimensions, in the order type, topic, budget,
\* motor, gearbox, traction, and no other question: at most 3, none about a
\* dimension present in the criteria, and the one about traction only with
\* the topic deportivo or offroad.
C21_FirstThreeQuestions ==
    Asked =>
        /\ Rendered(criteria) = Range(FirstApplicable(criteria))
        /\ Cardinality(Rendered(criteria)) <= 3
        /\ Contains(response, "detalles:**\n\n" \o QuestionLines(FirstApplicable(criteria), criteria)
                                  \o "\nCuanto")
        /\ \A d \in Rendered(criteria) : Applicable(d, criteria)

\* A response that asks about gearbox and traction only: the topic is
\* deportivo and type, budget and motor are known.
C21_Witness ==
    /\ Asked
    /\ criteria.topics = <<"deportivo">>
    /\ Rendered(criteria) = {"gearbox", "traction"}

\* C29: when the criteria come from extract_criteria_from_query, or carry
\* the flag it computes, and the flag is false, the response has exactly 3
\* questions, each about type, topic, budget or motor, and none about gearbox
\* or traction.
C29_AskHasThreeQuestions ==
    Asked /\ ~criteria.has_enough_data =>
        /\ Cardinality(Rendered(criteria)) = 3
        /\ Rendered(criteria) \subseteq {"type", "topic", "budget", "motor"}

\* The questions about topic, budget and motor, asked for the criteria
\* extracted from the utterance "berlina".
C29_Witness ==
    /\ Asked
    /\ last_op.extracted
    /\ user_query = "berlina"
    /\ ~criteria.has_enough_data
    /\ Rendered(criteria) = {"topic", "budget", "motor"}


-----------------------------------------------------------------------------
(* CarRecommender._load_vehicles_db and _clean_vehicle                      *)
(* (src/car_recommender.py).  A value the database returns is <<>> for      *)
(* null, <<"int", n>> for a number and <<"str", s>> for a string.  A row    *)
(* is the map the query returns, with its fourteen keys.                    *)

\* The longest result of the query.
MaxRows == 3

\* `if v_id`: None, 0 and "" are falsy.
Truthy(value) == value # <<>> /\ value # <<"int", 0>> /\ value # <<"str", "">>

\* _clean_vehicle: the keys of `defaults` (id and name are not among them and
\* stay as they came); None gives the default, cambio and traccion go through
\* str(), the others through float() with the default on ValueError.
CleanVehicle(vehicle) ==
    LET str(val) == IF val[1] = "str" THEN val[2] ELSE ToString(val[2])
        float(val) ==
            IF val[1] = "int" THEN val[2]
            ELSE IF val[2] # "" /\ \A i \in 1..Len(val[2]) : IsDigit(SubSeq(val[2], i, i))
                 THEN ParseInt(val[2])
                 ELSE 0
    IN  [key \in DOMAIN vehicle |->
            IF key \in {"id", "name"} THEN vehicle[key]
            ELSE IF vehicle[key] = <<>>
                 THEN IF key \in {"cambio", "traccion"} THEN "N/A" ELSE 0
            ELSE IF key \in {"cambio", "traccion"} THEN str(vehicle[key])
            ELSE float(vehicle[key])]

UnseenAlways(v_id, seen_ids) == Truthy(v_id)

\* `v_id and v_id not in seen_ids`
Unseen(v_id, seen_ids) == Truthy(v_id) /\ v_id \notin seen_ids

\* The loop of lines 104-111 over the rest of the rows.
RECURSIVE UniqueVehicles(_, _)
UniqueVehicles(rows, seen_ids) ==
    IF rows = <<>> THEN <<>>
    ELSE LET v == Head(rows)
             v_id == v.id
         IN  IF Unseen(v_id, seen_ids)
             THEN <<CleanVehicle(v)>> \o UniqueVehicles(Tail(rows), seen_ids \cup {v_id})
             ELSE UniqueVehicles(Tail(rows), seen_ids)

\* Rows of the database: two with the id "m1", one with each falsy id, one
\* with a numeric id, a numeric gearbox and a price that is no number.
QueryRows ==
    LET Row(id, name, precio, cambio) ==
            [id |-> id, name |-> name, precio |-> precio, potencia |-> <<"int", 150>>,
             aceleracion |-> <<>>, autonomia |-> <<"str", "700">>, cambio |-> cambio,
             traccion |-> <<>>, score_eco |-> <<"int", 80>>, score_urbano |-> <<>>,
             score_familiar |-> <<>>, score_deportivo |-> <<>>, score_viajes |-> <<>>,
             score_offroad |-> <<>>]
    IN  { Row(<<"str", "m1">>, <<"str", "BMW X3">>, <<"int", 52000>>, <<"str", "Manual">>),
          Row(<<"str", "m1">>, <<"str", "BMW X3 xDrive">>, <<>>, <<>>),
          Row(<<"str", "m2">>, <<"str", "Seat Ibiza">>, <<"str", "18000">>, <<"str", "Manual">>),
          Row(<<"int", 7>>, <<>>, <<"str", "caro">>, <<"int", 6>>),
          Row(<<>>, <<"str", "Audi Q3">>, <<"int", 38000>>, <<"str", "Manual">>),
          Row(<<"int", 0>>, <<"str", "Jeep Renegade">>, <<"int", 30000>>, <<"str", "Manual">>),
          Row(<<"str", "">>, <<"str", "Tesla Model 3">>, <<"int", 42000>>, <<>>) }

\* The recommender under construction: the query has returned `result`.
InitLoad ==
    /\ max_messages = DefaultMaxMessages
    /\ max_filters_history = DefaultMaxFiltersHistory
    /\ messages = <<>>
    /\ filters_history = <<>>
    /\ user_preferences = <<>>
    /\ mentioned_topics = {}
    /\ vehicles_db = <<>>
    /\ user_query = ""
    /\ memory_context = ""
    /\ criteria = EmptyCriteria
    /\ filtered = <<>>
    /\ ranked = <<>>
    /\ vehicles = <<>>
    /\ has_enough_data = FALSE
    /\ NoSession
    /\ \E n \in 0..MaxRows : \E result \in [1..n -> QueryRows] :
           last_op = [op |-> "session.run", result |-> result]

\* self.vehicles_db = self._load_vehicles_db(): the deduplicated, cleaned
\* rows, or [] when anything in the `try` raises.
LoadVehiclesDb ==
    /\ last_op.op = "session.run"
    /\ \E raised \in BOOLEAN :
           /\ vehicles_db' = IF raised THEN <<>> ELSE UniqueVehicles(last_op.result, {})
           /\ last_op' = [op |-> "_load_vehicles_db", result |-> last_op.result,
                          raised |-> raised]
    /\ UNCHANGED <<memVars, extractVars, searchVars, appVars, threads>>

SpecLoad == InitLoad /\ [][LoadVehiclesDb]_vars


-----------------------------------------------------------------------------
(* Claims about the loading of the catalog, checked under SpecLoad.         *)

\* The state a load that did not raise leaves.
Loaded == last_op.op = "_load_vehicles_db" /\ ~last_op.raised

\* The rows that are the first of their truthy id, in the order of the result.
FirstOfId(rows) ==
    SelectSeq([i \in 1..Len(rows) |-> i],
              LAMBDA i : /\ Truthy(rows[i].id)
                         /\ \A j \in 1..(i - 1) : rows[j].id # rows[i].id)

\* C26: the loaded catalog is, in the order of the source, the first record of
\* each id that is neither missing nor falsy: later records of an id and
\* records without a truthy id are dropped, and the ids are pairwise distinct.
C26_FirstOfEachId ==
    Loaded =>
        LET rows == last_op.result
            first == FirstOfId(rows)
        IN  /\ Len(vehicles_db) = Len(first)
            /\ \A k \in 1..Len(first) :
                   /\ vehicles_db[k].id = rows[first[k]].id
                   /\ vehicles_db[k].name = rows[first[k]].name
            /\ \A k \in 1..Len(vehicles_db) : Truthy(vehicles_db[k].id)
            /\ \A k, l \in 1..Len(vehicles_db) :
                   vehicles_db[k].id = vehicles_db[l].id => k = l

\* A load of three rows: two with the id "m1" and one with the id 0 between
\* them; the first is the only one kept.
C26_Witness ==
    /\ Loaded
    /\ Len(last_op.result) = 3
    /\ last_op.result[1].id = <<"str", "m1">>
    /\ last_op.result[1].name = <<"str", "BMW X3">>
    /\ last_op.result[2].id = <<"int", 0>>
    /\ last_op.result[3].id = <<"str", "m1">>
    /\ last_op.result[3].name = <<"str", "BMW X3 xDrive">>
    /\ Len(vehicles_db) = 1
    /\ vehicles_db[1].name = <<"str", "BMW X3">>
    /\ vehicles_db[1].precio = 52000


-----------------------------------------------------------------------------
(* A MemoryManager of default message capacity in a conversation longer     *)
(* than the window of get_context, with filter updates by a caller that     *)
(* goes on using the dict it passed.                                        *)

\* The longest conversation.
MaxScript == 12

\* The k-th turn of the conversation: the user and the assistant alternate.
ScriptTurn(k) ==
    Message(IF k % 2 = 1 THEN "user" ELSE "assistant",
            "mensaje " \o ToString(k)
                \o (IF k = 1 THEN ": algo de lujo, gasolina"
                    ELSE IF k = 3 THEN ": que sea eco y manual"
                    ELSE IF k = 11 THEN ": mejor automatico"
                    ELSE ""))

\* The dicts a caller passes: one with every key get_context reads, one
\* without most of them.
ContextFilters ==
    { [precio_min |-> 15000, precio_max |-> 30000, potencia_min |-> 50,
       potencia_max |-> 600, autonomia_min |-> 200],
      [precio_max |-> 1250000, autonomia_min |-> 400] }

InitContext ==
    /\ max_messages = DefaultMaxMessages
    /\ max_filters_history \in (1..MaxFilterCapacity) \cup {DefaultMaxFiltersHistory}
    /\ messages = <<>>
    /\ filters_history = <<>>
    /\ user_preferences = <<>>
    /\ mentioned_topics = {}
    /\ vehicles_db = <<>>
    /\ user_query = ""
    /\ memory_context = ""
    /\ criteria = EmptyCriteria
    /\ filtered = <<>>
    /\ ranked = <<>>
    /\ vehicles = <<>>
    /\ has_enough_data = FALSE
    /\ NoSession
    /\ last_op = [op |-> "init"]

\* filters[key] = value by the caller, on the dict it passed to the last
\* add_filter_update: the stored record changes with it when it holds that
\* very object.
ReassignKey(key, value) ==
    /\ last_op.op = "add_filter_update"
    /\ LET filters == [k \in DOMAIN last_op.filters \cup {key} |->
                          IF k = key THEN value ELSE last_op.filters[k]]
           n == Len(filters_history)
       IN  /\ filters_history' =
                  [i \in 1..n |-> IF i = n /\ filters_history[i].shared
                                  THEN [filters_history[i] EXCEPT !.filters = filters]
                                  ELSE filters_history[i]]
           /\ last_op' = [op |-> "filters[key] = value", filters |-> filters]
    /\ UNCHANGED <<max_messages, max_filters_history, messages, user_preferences,
                   mentioned_topics>>
    /\ UNCHANGED <<vehicles_db, extractVars, searchVars, appVars, threads>>

NextContext ==
    \/ /\ Len(messages) < MaxScript
       /\ AddMessage(ScriptTurn(Len(messages) + 1).role, ScriptTurn(Len(messages) + 1).content)
    \/ \E filters \in ContextFilters : AddFilterUpdate(filters)
    \/ ReassignKey("precio_max", 99000)
    \/ GetContextCall

SpecContext == InitContext /\ [][NextContext]_vars


-----------------------------------------------------------------------------
(* Claims about the context and the filter history, checked under           *)
(* SpecContext.                                                             *)

\* The line of one stored turn in the context.
TurnLine(msg) ==
    (IF msg.role = "user" THEN "Usuario" ELSE "Asistente") \o ": " \o msg.content \o "\n"

\* The lines of the turns i..j of msgs, one after the other.
RECURSIVE TurnLines(_, _, _)
TurnLines(msgs, i, j) ==
    IF i > j THEN "" ELSE TurnLine(msgs[i]) \o TurnLines(msgs, i + 1, j)

\* a < b for two lower-case names, as str compares them.
RECURSIVE NameLess(_, _)
NameLess(a, b) ==
    LET rank(c) == CHOOSE i \in 1..26 : SubSeq("abcdefghijklmnopqrstuvwxyz", i, i) = c
    IN  IF a = "" THEN b # ""
        ELSE IF b = "" THEN FALSE
        ELSE IF SubSeq(a, 1, 1) = SubSeq(b, 1, 1)
             THEN NameLess(SubSeq(a, 2, Len(a)), SubSeq(b, 2, Len(b)))
        ELSE rank(SubSeq(a, 1, 1)) < rank(SubSeq(b, 1, 1))

\* The names of a set in ascending order, joined by ", ".
AscendingNames(names) ==
    LET n == Cardinality(names)
        s == CHOOSE f \in [1..n -> names] :
                 \A i, j \in 1..n : i < j => NameLess(f[i], f[j])
    IN  JoinComma(s)

\* The price line of a snapshot passed by the caller.
PriceLine(filters) ==
    IF filters.precio_max = 30000 THEN "- Precio: €15,000 - €30,000\n"
    ELSE IF filters.precio_max = 1250000 THEN "- Precio: €0 - €1,250,000\n"
    ELSE "- Precio: €" \o ToString(filters.precio_max)

\* C22: get_context changes nothing of the memory, and the text it returns
\* holds the lines of the 10 most recent stored turns in their order and of
\* no older stored turn, the topic names in ascending order, every learned
\* preference, and the price line of the most recent filter snapshot and of
\* no other.
C22_ContextWindow ==
    [][last_op'.op = "get_context" =>
          LET text == last_op'.returned
              n == Len(messages)
              first == IF n > RecentTurns THEN n - RecentTurns + 1 ELSE 1
              head == "HISTORIAL DE CONVERSACIÓN:\n" \o TurnLines(messages, first, n) \o "\n"
          IN  /\ memVars' = memVars
              /\ text = GetContext(messages, mentioned_topics, user_preferences,
                                   filters_history)
              /\ \A i \in 1..n : Contains(text, TurnLine(messages[i])) <=> i >= first
              /\ n > 0 => Len(text) >= Len(head) /\ SubSeq(text, 1, Len(head)) = head
              /\ n = 0 => ~Contains(text, "HISTORIAL")
              /\ IF mentioned_topics # {}
                 THEN Contains(text, "TEMAS DE INTERÉS: "
                                         \o AscendingNames(mentioned_topics) \o "\n")
                 ELSE ~Contains(text, "TEMAS")
              /\ \A i \in 1..Len(user_preferences) :
                     Contains(text, "- " \o user_preferences[i].key \o ": "
                                        \o user_preferences[i].value \o "\n")
              /\ IF filters_history # <<>>
                 THEN LET last == filters_history[Len(filters_history)].filters
                      IN  /\ Contains(text, PriceLine(last))
                          /\ \A f \in ContextFilters :
                                 f # last => ~Contains(text, PriceLine(f))
                 ELSE ~Contains(text, "FILTROS")]_vars

\* A context asked for after twelve turns and two different snapshots: the
\* third turn is the oldest in it, and the price is the last snapshot's.
C22_Witness ==
    /\ last_op.op = "get_context"
    /\ Len(messages) = 12
    /\ Len(filters_history) = 2
    /\ filters_history[1].filters.precio_max = 30000
    /\ filters_history[2].filters.precio_max = 1250000
    /\ ~Contains(last_op.returned, "mensaje 2\n")
    /\ Contains(last_op.returned,
                "HISTORIAL DE CONVERSACIÓN:\nUsuario: mensaje 3: que sea eco y manual\n")
    /\ Contains(last_op.returned, "Asistente: mensaje 12\n\nTEMAS DE INTERÉS: eco, lujo")
    /\ Contains(last_op.returned, "€1,250,000")
    /\ ~Contains(last_op.returned, "€30,000")

\* C23: add_filter_update appends a record holding the filters it was given
\* to the history, dropping the oldest record when the history is at its
\* capacity, and leaves the turns, topics and preferences alone; the history
\* never holds more than max_filters_history records; and when the caller
\* then reassigns a key of the dict it passed, the history stays as it was.
C23_FilterHistory ==
    [][/\ Len(filters_history') <= max_filters_history'
       /\ last_op'.op = "add_filter_update" =>
              LET kept == IF Len(filters_history) < max_filters_history
                          THEN filters_history
                          ELSE Tail(filters_history)
                  n == Len(filters_history')
              IN  /\ n = Len(kept) + 1
                  /\ SubSeq(filters_history', 1, n - 1) = kept
                  /\ filters_history'[n].filters = last_op'.filters
                  /\ messages' = messages
                  /\ mentioned_topics' = mentioned_topics
                  /\ user_preferences' = user_preferences
       /\ last_op'.op = "filters[key] = value" =>
              /\ last_op'.filters # last_op.filters
              /\ filters_history' = filters_history
              /\ filters_history[Len(filters_history)].filters = last_op.filters]_vars

\* A memory of the default capacity 5 whose history is full, after the
\* caller changed precio_max of the dict it passed last: the snapshot holds
\* the value it was given.
C23_Witness ==
    /\ max_filters_history = 5
    /\ Len(filters_history) = 5
    /\ last_op.op = "filters[key] = value"
    /\ last_op.filters.precio_max = 99000
    /\ filters_history[5].filters.precio_max = 30000
    /\ filters_history[1].filters.precio_max = 1250000

====
